---------------------------- MODULE Spec2Model ----------------------------
(***************************************************************************)
(* Model of the PAL wait multiplexer, CorUnix::InternalWaitForMultiple-    *)
(* ObjectsEx (src/shared/pal/src/synchmgr/wait.cpp), together with the     *)
(* collaborators it calls: the object manager (handle resolution and       *)
(* reference counts), the synchronization manager and its per-object wait  *)
(* controllers.  One call is a sequence of steps separated at the calls    *)
(* into those collaborators; every collaborator call may fail.             *)
(***************************************************************************)
EXTENDS Integers, Sequences, FiniteSets, TLC

(***************************************************************************)
(* Program constants (pal.h part of wait.cpp).                             *)
(***************************************************************************)
MAXIMUM_WAIT_OBJECTS == 64
WAIT_OBJECT_0 == 0
\* the abandoned codes start inside the range of the satisfied codes
WAIT_ABANDONED_0_Overlapping == MAXIMUM_WAIT_OBJECTS \div 2
WAIT_ABANDONED_0 == 128
WAIT_TIMEOUT == 258
\* A DWORD is held as the 32-bit two's-complement integer with the same bit
\* pattern: 0xFFFFFFFF is -1, and the unsigned order puts the negative
\* values above every non-negative one.
WAIT_FAILED == -1
INFINITE == -1
\* PAL_ERROR values are held by name.
NO_ERROR == "NO_ERROR"
MAXIMUM_STACK_WAITOBJ_ARRAY_SIZE == MAXIMUM_WAIT_OBJECTS \div 4

MaxInt32 == 2147483647

\* a > b as DWORDs
DWordGreater(a, b) ==
    IF (a < 0) = (b < 0) THEN a > b ELSE a < 0

\* a + b as DWORDs (a, b held as above; the sum wraps at 32 bits)
DWordAdd(a, b) ==
    IF a >= 0 /\ b >= 0 /\ a > MaxInt32 - b
    THEN ((a - MaxInt32) + b) - MaxInt32 - 2
    ELSE IF a < 0 /\ b < 0 /\ a < (-MaxInt32 - 1) - b
    THEN ((a + MaxInt32) + b) + MaxInt32 + 2
    ELSE a + b

(***************************************************************************)
(* Bounds of the model.                                                    *)
(***************************************************************************)
\* number of calls each thread makes
MaxCalls == 2
\* counts up to this one are tried with every handle array
MaxSmallCount == 2

(***************************************************************************)
(* The world outside the multiplexer: threads, objects, handles.           *)
(***************************************************************************)
Threads == {"T1", "T2"}
\* the single caller of the sequential specification
SeqThreads == {"T1"}

NULL == "NULL"

\* oProc: a process object, stays signaled when a wait on it is satisfied.
\* oThread: a thread object with exclusive-owner semantics in this model:
\*          satisfying a wait clears its signal.
\* oMutex: an object of a kind that may not be waited on.
Objects == {"oProc", "oThread", "oMutex"}

ObjectKind(o) ==
    CASE o = "oProc" -> "otiProcess"
      [] o = "oThread" -> "otiThread"
      [] OTHER -> "otiMutex"

ConsumeClearsSignal(o) == o = "oThread"

\* hClosed names no object.
Handles == {"hProc", "hThread", "hMutex", "hClosed"}

HandleTable(h) ==
    CASE h = "hProc" -> "oProc"
      [] h = "hThread" -> "oThread"
      [] h = "hMutex" -> "oMutex"
      [] OTHER -> NULL

\* the mutex kind is let through as well
sg_rgWaitObjectsIds_WithMutex == {"otiProcess", "otiThread", "otiMutex"}

sg_rgWaitObjectsIds == {"otiProcess", "otiThread"}

\* error codes a collaborator may return when it fails
ManagerErrors == {"ERROR_INTERNAL_ERROR", "ERROR_OUTOFMEMORY"}
RegistryFaults == {"ERROR_OUTOFMEMORY"}

(***************************************************************************)
(* Requests.                                                               *)
(***************************************************************************)
\* 0xFFFFFFFF, the largest count a caller can pass
HugeCount == -1

Counts ==
    (0 .. MaxSmallCount)
    \cup {MAXIMUM_STACK_WAITOBJ_ARRAY_SIZE,
          MAXIMUM_STACK_WAITOBJ_ARRAY_SIZE + 1,
          MAXIMUM_WAIT_OBJECTS, MAXIMUM_WAIT_OBJECTS + 1, HugeCount}

\* Handle arrays of length n: all of them for small n; for large n the
\* arrays that hold one handle everywhere but possibly another one in the
\* last position.
HandleArrays(n) ==
    IF n = HugeCount
    THEN {<<>>}   \* the array is never read for such a count
    ELSE IF n <= MaxSmallCount
    THEN [1 .. n -> Handles]
    ELSE {[k \in 1 .. n |-> IF k = n THEN h2 ELSE h1] :
             h1 \in {"hProc", "hMutex"}, h2 \in {"hProc", "hThread", "hClosed"}}

Timeouts == {0, 1, INFINITE}

VARIABLES
    th,         \* per thread: the request, the locals of the call, its log
    refCount,   \* per object: reference count
    signaled,   \* per object: a waiter may proceed
    abandoned,  \* per object: the previous owner died holding it
    owner,      \* per object: the thread whose wait it last satisfied
    waiters,    \* per object: threads registered as waiting on it
    ctrlHeld    \* per thread: wait controllers acquired and not yet released

vars == <<th, refCount, signaled, abandoned, owner, waiters, ctrlHeld>>

\* what the synchronization manager holds about the objects
ObjectState ==
    [signaled |-> signaled, abandoned |-> abandoned,
     owner |-> owner, waiters |-> waiters]

NoObjectState ==
    [signaled |-> [o \in Objects |-> FALSE],
     abandoned |-> [o \in Objects |-> FALSE],
     owner |-> [o \in Objects |-> NULL],
     waiters |-> [o \in Objects |-> {}]]

\* the result starts as a timeout
dwRet_InitiallyTimeout == WAIT_TIMEOUT

\* line 80: the result a call returns when no later line assigns it
dwRet_Initially == WAIT_FAILED

IdleThread ==
    [pc |-> "Idle", calls |-> 0, entry |-> "None",
     nCount |-> 0, lpHandles |-> <<>>, bWaitAll |-> FALSE,
     dwMilliseconds |-> 0, bAlertable |-> FALSE,
     dwRet |-> dwRet_Initially, palErr |-> NO_ERROR,
     i |-> 0, iEndIdx |-> 0,
     iSignaledObjCount |-> 0, iSignaledObjIndex |-> -1,
     fWAll |-> FALSE, fNeedToBlock |-> FALSE, fAbandoned |-> FALSE,
     wtWaitType |-> NULL,
     ppIPalObjs |-> <<>>, ppISyncWaitCtrlrs |-> <<>>,
     heapObjs |-> "none", heapCtrls |-> "none",
     lastError |-> NO_ERROR,
     wake |-> [reason |-> "None", idx |-> -1],
     path |-> "None",
     ops |-> <<>>, refAtEntry |-> [o \in Objects |-> 0],
     objAtEntry |-> NoObjectState,
     ctrlAtEntry |-> 0, errAtEntry |-> NO_ERROR]

Init ==
    /\ th = [t \in Threads |-> IdleThread]
    /\ refCount = [o \in Objects |-> IF o = "oProc" THEN 2 ELSE 1]
    /\ signaled \in [Objects -> BOOLEAN]
    /\ abandoned \in [Objects -> BOOLEAN]
    /\ \A o \in Objects : o = "oMutex" => ~signaled[o]
    /\ \A o \in Objects : abandoned[o] => ConsumeClearsSignal(o)
    /\ owner = [o \in Objects |-> NULL]
    /\ waiters = [o \in Objects |-> {}]
    /\ ctrlHeld = [t \in Threads |-> 0]

\* The log of a call: one entry <<operation, index, result>> for every call it
\* makes into a collaborator (index 0 for operations on the whole array).
Log(t, op, idx, err) == Append(th[t].ops, <<op, idx, err>>)

(***************************************************************************)
(* Entry: a thread calls InternalWaitForMultipleObjectsEx.                 *)
(* Locals are initialised as in lines 80-90.                               *)
(***************************************************************************)
Call(t) ==
    /\ th[t].pc = "Idle"
    /\ th[t].calls < MaxCalls
    /\ \E n \in Counts, all \in BOOLEAN, ms \in Timeouts, al \in BOOLEAN :
         \E hs \in HandleArrays(n) :
           th' = [th EXCEPT ![t] =
                    [IdleThread EXCEPT
                       !.pc = "Validate", !.calls = th[t].calls + 1,
                       !.entry = "InternalWaitForMultipleObjectsEx",
                       !.nCount = n, !.lpHandles = hs, !.bWaitAll = all,
                       !.dwMilliseconds = ms, !.bAlertable = al,
                       !.fWAll = all,
                       !.lastError = th[t].lastError,
                       !.errAtEntry = th[t].lastError,
                       !.refAtEntry = refCount,
                       !.objAtEntry = ObjectState,
                       !.ctrlAtEntry = ctrlHeld[t]]]
    /\ UNCHANGED <<refCount, signaled, abandoned, owner, waiters, ctrlHeld>>

(***************************************************************************)
(* Lines 50-69: WaitForSingleObject passes its handle and timeout to       *)
(* InternalWaitForMultipleObjectsEx and returns what that call returns.    *)
(***************************************************************************)
\* the single-object request is passed on as alertable
SingleObjectRequest_Alertable(hHandle, dwMilliseconds) ==
    [nCount |-> 1, lpHandles |-> <<hHandle>>, bWaitAll |-> FALSE,
     dwMilliseconds |-> dwMilliseconds, bAlertable |-> TRUE]

\* lines 63-64: the arguments of the inner call
SingleObjectRequest(hHandle, dwMilliseconds) ==
    [nCount |-> 1, lpHandles |-> <<hHandle>>, bWaitAll |-> FALSE,
     dwMilliseconds |-> dwMilliseconds, bAlertable |-> FALSE]

\* the call for a handle and a timeout taken from the given sets
WaitForSingleObjectOn(t, handles, timeouts) ==
    /\ th[t].pc = "Idle"
    /\ th[t].calls < MaxCalls
    /\ \E hHandle \in handles, ms \in timeouts :
         LET rq == SingleObjectRequest(hHandle, ms) IN
         th' = [th EXCEPT ![t] =
                  [IdleThread EXCEPT
                     !.pc = "Validate", !.calls = th[t].calls + 1,
                     !.entry = "WaitForSingleObject",
                     !.nCount = rq.nCount, !.lpHandles = rq.lpHandles,
                     !.bWaitAll = rq.bWaitAll,
                     !.dwMilliseconds = rq.dwMilliseconds,
                     !.bAlertable = rq.bAlertable,
                     !.fWAll = rq.bWaitAll,
                     !.lastError = th[t].lastError,
                     !.errAtEntry = th[t].lastError,
                     !.refAtEntry = refCount,
                     !.objAtEntry = ObjectState,
                     !.ctrlAtEntry = ctrlHeld[t]]]
    /\ UNCHANGED <<refCount, signaled, abandoned, owner, waiters, ctrlHeld>>

WaitForSingleObject(t) == WaitForSingleObjectOn(t, Handles, Timeouts)

(***************************************************************************)
(* Lines 92-120: count validation, wait type, working arrays.              *)
(***************************************************************************)
\* the upper limit is off by one
CountInvalid_OffByOne(n) == (n = 0) \/ DWordGreater(n, MAXIMUM_WAIT_OBJECTS + 1)

CountInvalid(n) == (n = 0) \/ DWordGreater(n, MAXIMUM_WAIT_OBJECTS)

\* the inline arrays are taken to hold one object less
NeedsHeapArrays_FromStackSize(n) ==
    DWordGreater(n, MAXIMUM_STACK_WAITOBJ_ARRAY_SIZE - 1)

NeedsHeapArrays(n) == DWordGreater(n, MAXIMUM_STACK_WAITOBJ_ARRAY_SIZE)

\* the wait-all flag of a request of one object is left as passed
SingleObjectWaitAll_AsPassed(fWAll) == fWAll

\* line 103: the wait-all flag of a request of one object
SingleObjectWaitAll(fWAll) == FALSE

Validate(t) ==
    /\ th[t].pc = "Validate"
    /\ LET n == th[t].nCount IN
       IF CountInvalid(n)
       THEN th' = [th EXCEPT ![t].heapObjs = NULL,
                             ![t].heapCtrls = NULL,
                             ![t].lastError = "ERROR_INVALID_PARAMETER",
                             ![t].path = "InvalidCount",
                             ![t].pc = "Exit"]
       ELSE IF n = 1
       THEN th' = [th EXCEPT ![t].fWAll = SingleObjectWaitAll(th[t].fWAll),
                             ![t].wtWaitType = "SingleObject",
                             ![t].pc = "Resolve"]
       ELSE LET wt == IF th[t].fWAll THEN "MultipleObjectsWaitAll"
                                     ELSE "MultipleObjectsWaitOne" IN
            IF NeedsHeapArrays(n)
            THEN \E a1, a2 \in BOOLEAN :
                   LET h1 == IF a1 THEN "allocated" ELSE NULL
                       h2 == IF a2 THEN "allocated" ELSE NULL IN
                   IF a1 /\ a2
                   THEN th' = [th EXCEPT ![t].wtWaitType = wt,
                                         ![t].heapObjs = h1,
                                         ![t].heapCtrls = h2,
                                         ![t].pc = "Resolve"]
                   ELSE th' = [th EXCEPT ![t].wtWaitType = wt,
                                         ![t].heapObjs = h1,
                                         ![t].heapCtrls = h2,
                                         ![t].lastError = "ERROR_NOT_ENOUGH_MEMORY",
                                         ![t].path = "OutOfMemory",
                                         ![t].pc = "Exit"]
            ELSE th' = [th EXCEPT ![t].wtWaitType = wt, ![t].pc = "Resolve"]
    /\ UNCHANGED <<refCount, signaled, abandoned, owner, waiters, ctrlHeld>>

(***************************************************************************)
(* The object manager.  ReferenceMultipleObjectsByHandleArray resolves     *)
(* every handle to an object of an allowed kind and takes one reference    *)
(* per position; on failure no reference is left behind.                   *)
(***************************************************************************)
HandleResolves(h) ==
    /\ HandleTable(h) # NULL
    /\ ObjectKind(HandleTable(h)) \in sg_rgWaitObjectsIds

\* the registry's result for the array hs, fault being the internal failure
\* (or NO_ERROR) that strikes when every handle is good
RegistryResult(hs, fault) ==
    IF \E k \in DOMAIN hs : ~HandleResolves(hs[k])
    THEN "ERROR_INVALID_HANDLE"
    ELSE fault

\* number of positions of the object array objs that hold o
Positions(objs, o) == Cardinality({k \in DOMAIN objs : objs[k] = o})

(***************************************************************************)
(* Lines 122-136: resolve and pin the objects.                             *)
(***************************************************************************)
\* the registry's error code is passed on as it is
ResolveLastError_AsReturned(err) == err

ResolveLastError(err) ==
    IF err = "ERROR_INVALID_HANDLE" THEN "ERROR_INVALID_HANDLE"
                                    ELSE "ERROR_INTERNAL_ERROR"

Resolve(t) ==
    /\ th[t].pc = "Resolve"
    /\ \E fault \in {NO_ERROR} \cup RegistryFaults :
         LET hs == th[t].lpHandles
             err == RegistryResult(hs, fault)
             objs == [k \in DOMAIN hs |-> HandleTable(hs[k])]
             log == Log(t, "ReferenceMultipleObjectsByHandleArray", 0, err)
         IN IF err # NO_ERROR
            THEN /\ th' = [th EXCEPT ![t].palErr = err,
                                     ![t].ops = log,
                                     ![t].lastError = ResolveLastError(err),
                                     ![t].path = "ResolveFailed",
                                     ![t].pc = "Exit"]
                 /\ UNCHANGED refCount
            ELSE /\ th' = [th EXCEPT ![t].palErr = err,
                                     ![t].ops = log,
                                     ![t].ppIPalObjs = objs,
                                     ![t].pc = "Gate"]
                 /\ refCount' = [o \in Objects |->
                                    refCount[o] + Positions(objs, o)]
    /\ UNCHANGED <<signaled, abandoned, owner, waiters, ctrlHeld>>

(***************************************************************************)
(* Lines 138-163: multi-object waits are refused; duplicate check of a     *)
(* wait-all request.                                                       *)
(***************************************************************************)
\* no count is refused
MultiObjectRefused_Never(n) == FALSE

\* the refusal starts one object too late
MultiObjectRefused_FromThree(n) == n > 2

MultiObjectRefused(n) == n > 1

\* lines 150-162: two positions i < j of the first n hold the same object
HasDuplicate(objs, n) ==
    \E a \in 1 .. n - 1 : \E b \in a + 1 .. n : objs[b] = objs[a]

Gate(t) ==
    /\ th[t].pc = "Gate"
    /\ IF MultiObjectRefused(th[t].nCount)
       THEN th' = [th EXCEPT ![t].lastError = "ERROR_NOT_SUPPORTED",
                             ![t].path = "NotSupported",
                             ![t].pc = "Cleanup"]
       ELSE IF th[t].fWAll /\ HasDuplicate(th[t].ppIPalObjs, th[t].nCount)
       THEN th' = [th EXCEPT ![t].lastError = "ERROR_INVALID_PARAMETER",
                             ![t].path = "Duplicate",
                             ![t].pc = "Cleanup"]
       ELSE th' = [th EXCEPT ![t].pc = "GetControllers"]
    /\ UNCHANGED <<refCount, signaled, abandoned, owner, waiters, ctrlHeld>>

(***************************************************************************)
(* Lines 165-173: one wait controller per object.  The manager hands out   *)
(* all of them or none.                                                    *)
(***************************************************************************)
GetControllers(t) ==
    /\ th[t].pc = "GetControllers"
    /\ \E err \in {NO_ERROR} \cup ManagerErrors :
         LET log == Log(t, "GetSynchWaitControllersForObjects", 0, err) IN
         IF err # NO_ERROR
         THEN /\ th' = [th EXCEPT ![t].palErr = err,
                                  ![t].ops = log,
                                  ![t].lastError = "ERROR_INTERNAL_ERROR",
                                  ![t].path = "ControllersFailed",
                                  ![t].pc = "Cleanup"]
              /\ UNCHANGED ctrlHeld
         ELSE /\ th' = [th EXCEPT ![t].palErr = err,
                                  ![t].ops = log,
                                  ![t].ppISyncWaitCtrlrs = th[t].ppIPalObjs,
                                  ![t].pc = "CheckAlertable"]
              /\ ctrlHeld' = [ctrlHeld EXCEPT ![t] = @ + th[t].nCount]
    /\ UNCHANGED <<refCount, signaled, abandoned, owner, waiters>>

(***************************************************************************)
(* Lines 175-183: alertable waits are refused; the pre-check loop starts.  *)
(***************************************************************************)
\* the alertable flag is not looked at
AlertableRefused_Never(bAlertable) == FALSE

AlertableRefused(bAlertable) == bAlertable

CheckAlertable(t) ==
    /\ th[t].pc = "CheckAlertable"
    /\ IF AlertableRefused(th[t].bAlertable)
       THEN th' = [th EXCEPT ![t].lastError = "ERROR_INTERNAL_ERROR",
                             ![t].dwRet = WAIT_FAILED,
                             ![t].path = "Alertable",
                             ![t].pc = "Cleanup"]
       ELSE th' = [th EXCEPT ![t].iSignaledObjCount = 0,
                             ![t].iSignaledObjIndex = -1,
                             ![t].i = 0,
                             ![t].pc = "PreCheck"]
    /\ UNCHANGED <<refCount, signaled, abandoned, owner, waiters, ctrlHeld>>

(***************************************************************************)
(* The wait controller of an object.  C arrays are indexed from 0, the     *)
(* sequences of the model from 1: entry i of an array is seq[i + 1].       *)
(***************************************************************************)
CtrlObject(t, idx) == th[t].ppISyncWaitCtrlrs[idx + 1]

\* <<fValue, fWaitObjectAbandoned>> for object o
CanThreadWaitWithoutBlocking(o) == <<signaled[o], abandoned[o]>>

(***************************************************************************)
(* Lines 184-206: one iteration of the pre-check loop.                     *)
(***************************************************************************)
PreCheckStops(fValue, fWAll) == fValue /\ ~fWAll

\* every pre-checked object is taken as satisfied
ObjectSatisfied_Always(fValue) == TRUE

\* line 199: the object counts as satisfied
ObjectSatisfied(fValue) == fValue

PreCheck(t) ==
    /\ th[t].pc = "PreCheck"
    /\ th[t].i < th[t].nCount
    /\ \E err \in {NO_ERROR} \cup ManagerErrors :
         LET idx == th[t].i
             o == CtrlObject(t, idx)
             res == CanThreadWaitWithoutBlocking(o)
             fValue == res[1]
             fWaitObjectAbandoned == res[2]
             log == Log(t, "CanThreadWaitWithoutBlocking", idx, err)
         IN IF err # NO_ERROR
            THEN th' = [th EXCEPT ![t].palErr = err,
                                  ![t].ops = log,
                                  ![t].lastError = "ERROR_INTERNAL_ERROR",
                                  ![t].path = "PreCheckFailed",
                                  ![t].i = 0,
                                  ![t].pc = "ReleaseControllers"]
            ELSE th' = [th EXCEPT
                   ![t].palErr = err,
                   ![t].ops = log,
                   ![t].fAbandoned = @ \/ fWaitObjectAbandoned,
                   ![t].iSignaledObjCount =
                       IF ObjectSatisfied(fValue) THEN @ + 1 ELSE @,
                   ![t].iSignaledObjIndex =
                       IF ObjectSatisfied(fValue) THEN idx ELSE @,
                   ![t].i = IF PreCheckStops(fValue, th[t].fWAll)
                            THEN idx ELSE idx + 1,
                   ![t].pc = IF PreCheckStops(fValue, th[t].fWAll)
                                \/ idx + 1 >= th[t].nCount
                             THEN "Decide" ELSE "PreCheck"]
    /\ UNCHANGED <<refCount, signaled, abandoned, owner, waiters, ctrlHeld>>

(***************************************************************************)
(* Lines 208-233 and 249-256: is blocking needed; choice of the path.      *)
(***************************************************************************)
\* blocking is found necessary when an object is satisfied
NeedToBlock_WhenSatisfied(cnt, fWAll, n) == cnt > 0

\* blocking is always found necessary
NeedToBlock_Always(cnt, fWAll, n) == TRUE

\* the case of no satisfied object is forgotten
NeedToBlock_WaitAllOnly(cnt, fWAll, n) == fWAll /\ cnt < n

NeedToBlock(cnt, fWAll, n) == (cnt = 0) \/ (fWAll /\ cnt < n)

\* a timeout of zero is not recognised
ZeroTimeout_Never(ms) == FALSE

\* the timeout is compared with the wrong sentinel
ZeroTimeout_Infinite(ms) == ms = INFINITE

ZeroTimeout(ms) == ms = 0

Decide(t) ==
    /\ th[t].pc = "Decide"
    /\ LET need == NeedToBlock(th[t].iSignaledObjCount, th[t].fWAll,
                               th[t].nCount)
           iStartIdx == IF th[t].fWAll THEN 0 ELSE th[t].iSignaledObjIndex
           iEnd == IF th[t].fWAll THEN th[t].nCount ELSE iStartIdx + 1
       IN IF ~need
          THEN IF iStartIdx < 0
               THEN th' = [th EXCEPT ![t].fNeedToBlock = FALSE,
                                     ![t].lastError = "ERROR_INTERNAL_ERROR",
                                     ![t].dwRet = WAIT_FAILED,
                                     ![t].path = "NegativeStart",
                                     ![t].pc = "Cleanup"]
               ELSE th' = [th EXCEPT ![t].fNeedToBlock = FALSE,
                                     ![t].path = "FastPath",
                                     ![t].i = iStartIdx,
                                     ![t].iEndIdx = iEnd,
                                     ![t].pc = "Consume"]
          ELSE IF ZeroTimeout(th[t].dwMilliseconds)
          THEN th' = [th EXCEPT ![t].dwRet = WAIT_TIMEOUT,
                                ![t].fNeedToBlock = FALSE,
                                ![t].path = "ZeroTimeout",
                                ![t].i = 0,
                                ![t].pc = "ReleaseControllers"]
          ELSE th' = [th EXCEPT ![t].fNeedToBlock = TRUE,
                                ![t].path = "Blocking",
                                ![t].i = 0,
                                ![t].pc = "Register"]
    /\ UNCHANGED <<refCount, signaled, abandoned, owner, waiters, ctrlHeld>>

(***************************************************************************)
(* Lines 234-247: one iteration of the loop that consumes the signals,     *)
(* and the result of the fast path once the loop is over.                  *)
(***************************************************************************)
\* the two results are swapped
FastPathResult_Swapped(fAbandoned) ==
    IF fAbandoned THEN WAIT_OBJECT_0 ELSE WAIT_ABANDONED_0

\* the abandoned flag of the pre-check is ignored
FastPathResult_NeverAbandoned(fAbandoned) == WAIT_OBJECT_0

\* a satisfied wait that is not abandoned is reported as a timeout
FastPathResult_Timeout(fAbandoned) ==
    IF fAbandoned THEN WAIT_ABANDONED_0 ELSE WAIT_TIMEOUT

FastPathResult(fAbandoned) ==
    IF fAbandoned THEN WAIT_ABANDONED_0 ELSE WAIT_OBJECT_0

Consume(t) ==
    /\ th[t].pc = "Consume"
    /\ IF th[t].i < th[t].iEndIdx
       THEN \E err \in {NO_ERROR} \cup ManagerErrors :
              LET idx == th[t].i
                  o == CtrlObject(t, idx)
                  log == Log(t, "ReleaseWaitingThreadWithoutBlocking", idx, err)
              IN IF err # NO_ERROR
                 THEN /\ th' = [th EXCEPT ![t].palErr = err,
                                          ![t].ops = log,
                                          ![t].lastError = err,
                                          ![t].path = "ConsumeFailed",
                                          ![t].i = 0,
                                          ![t].pc = "ReleaseControllers"]
                      /\ UNCHANGED <<signaled, abandoned, owner>>
                 ELSE /\ th' = [th EXCEPT ![t].palErr = err,
                                          ![t].ops = log,
                                          ![t].i = idx + 1]
                      /\ owner' = [owner EXCEPT ![o] = t]
                      /\ signaled' = [signaled EXCEPT ![o] =
                                        IF ConsumeClearsSignal(o) THEN FALSE
                                                                  ELSE @]
                      /\ abandoned' = [abandoned EXCEPT ![o] = FALSE]
       ELSE /\ th' = [th EXCEPT ![t].dwRet = FastPathResult(th[t].fAbandoned),
                                ![t].i = 0,
                                ![t].pc = "ReleaseControllers"]
            /\ UNCHANGED <<signaled, abandoned, owner>>
    /\ UNCHANGED <<refCount, waiters, ctrlHeld>>

(***************************************************************************)
(* Lines 258-272: one iteration of the loop that registers the thread as   *)
(* a waiter.                                                               *)
(***************************************************************************)
Register(t) ==
    /\ th[t].pc = "Register"
    /\ IF th[t].i < th[t].nCount
       THEN \E err \in {NO_ERROR} \cup ManagerErrors :
              LET idx == th[t].i
                  o == CtrlObject(t, idx)
                  log == Log(t, "RegisterWaitingThread", idx, err)
              IN IF err # NO_ERROR
                 THEN /\ th' = [th EXCEPT ![t].palErr = err,
                                          ![t].ops = log,
                                          ![t].lastError = err,
                                          ![t].path = "RegisterFailed",
                                          ![t].i = 0,
                                          ![t].pc = "ReleaseControllers"]
                      /\ UNCHANGED waiters
                 ELSE /\ th' = [th EXCEPT ![t].palErr = err,
                                          ![t].ops = log,
                                          ![t].i = idx + 1]
                      /\ waiters' = [waiters EXCEPT ![o] = @ \cup {t}]
       ELSE /\ th' = [th EXCEPT ![t].i = 0, ![t].pc = "ReleaseControllers"]
            /\ UNCHANGED waiters
    /\ UNCHANGED <<refCount, signaled, abandoned, owner, ctrlHeld>>

(***************************************************************************)
(* Lines 275-285: one iteration of the loop that releases the controllers, *)
(* and the branch taken once the loop is over.                             *)
(***************************************************************************)
\* the release loop is not entered
ReleaseLoopEnd_Empty(n) == 0

\* line 277: the release loop runs over the positions below this one
ReleaseLoopEnd(n) == n

\* the release loop does not advance
ReleaseLoopNext_Stuck(i) == i

\* line 277: the position the release loop goes on with
ReleaseLoopNext(i) == i + 1

\* the thread never goes to sleep
GoesToSleep_Never(fNeedToBlock) == FALSE

\* line 285: the thread calls BlockThread
GoesToSleep(fNeedToBlock) == fNeedToBlock

ReleaseControllers(t) ==
    /\ th[t].pc = "ReleaseControllers"
    /\ IF th[t].i < ReleaseLoopEnd(th[t].nCount)
       THEN /\ th' = [th EXCEPT
                        ![t].ops = Log(t, "ReleaseController", th[t].i, NO_ERROR),
                        ![t].ppISyncWaitCtrlrs[th[t].i + 1] = NULL,
                        ![t].i = ReleaseLoopNext(th[t].i)]
            /\ ctrlHeld' = [ctrlHeld EXCEPT ![t] = @ - 1]
       ELSE /\ th' = [th EXCEPT ![t].pc =
                        IF th[t].palErr # NO_ERROR THEN "Cleanup"
                        ELSE IF GoesToSleep(th[t].fNeedToBlock)
                        THEN "BlockThread"
                        ELSE "MapIndex"]
            /\ UNCHANGED ctrlHeld
    /\ UNCHANGED <<refCount, signaled, abandoned, owner, waiters>>

(***************************************************************************)
(* Lines 285-325: the thread blocks in the synchronization manager, which  *)
(* reports why it woke the thread and at which index.  When the manager    *)
(* returns, the thread is no longer registered on any object.              *)
(***************************************************************************)
WakeupReasons ==
    {"WaitSucceeded", "MutexAbondoned", "WaitTimeout", "WaitFailed", "Alerted"}

\* indexes the manager may report for a request of n objects
ReportedIndexes(n) == {-1, 0, n}

\* a successful wait is reported as a timeout
WakeupResult_SucceededAsTimeout(reason) ==
    CASE reason = "WaitSucceeded" -> WAIT_TIMEOUT
      [] reason = "MutexAbondoned" -> WAIT_ABANDONED_0
      [] reason = "WaitTimeout" -> WAIT_TIMEOUT
      [] OTHER -> WAIT_FAILED

WakeupResult(reason) ==
    CASE reason = "WaitSucceeded" -> WAIT_OBJECT_0
      [] reason = "MutexAbondoned" -> WAIT_ABANDONED_0
      [] reason = "WaitTimeout" -> WAIT_TIMEOUT
      [] OTHER -> WAIT_FAILED

BlockThread(t) ==
    /\ th[t].pc = "BlockThread"
    /\ \E err \in {NO_ERROR} \cup ManagerErrors :
         IF err # NO_ERROR
         THEN th' = [th EXCEPT ![t].palErr = err,
                               ![t].ops = Log(t, "BlockThread", 0, err),
                               ![t].lastError = err,
                               ![t].path = "BlockFailed",
                               ![t].pc = "Cleanup"]
         ELSE \E reason \in WakeupReasons,
                 idx \in ReportedIndexes(th[t].nCount) :
                /\ reason = "WaitTimeout" => th[t].dwMilliseconds # INFINITE
                /\ th' = [th EXCEPT ![t].palErr = err,
                                    ![t].ops = Log(t, "BlockThread", 0, reason),
                                    ![t].iSignaledObjIndex = idx,
                                    ![t].dwRet = WakeupResult(reason),
                                    ![t].path = "Woken",
                                    ![t].pc = "MapIndex"]
    /\ waiters' = [o \in Objects |-> waiters[o] \ {t}]
    /\ UNCHANGED <<refCount, signaled, abandoned, owner, ctrlHeld>>

(***************************************************************************)
(* Lines 327-343: the index of the satisfied object is added to the        *)
(* result of a wait that is not a wait-all.                                *)
(***************************************************************************)
\* no reported index is rejected
IndexRejected_Never(idx) == FALSE

IndexRejected(idx) == idx < 0

MapIndex(t) ==
    /\ th[t].pc = "MapIndex"
    /\ IF ~th[t].fWAll /\ th[t].dwRet \in {WAIT_OBJECT_0, WAIT_ABANDONED_0}
       THEN IF IndexRejected(th[t].iSignaledObjIndex)
            THEN th' = [th EXCEPT ![t].lastError = "ERROR_INTERNAL_ERROR",
                                  ![t].dwRet = WAIT_FAILED,
                                  ![t].path = "NegativeIndex",
                                  ![t].pc = "Cleanup"]
            ELSE th' = [th EXCEPT
                          ![t].dwRet = DWordAdd(@, th[t].iSignaledObjIndex),
                          ![t].pc = "Cleanup"]
       ELSE th' = [th EXCEPT ![t].pc = "Cleanup"]
    /\ UNCHANGED <<refCount, signaled, abandoned, owner, waiters, ctrlHeld>>

(***************************************************************************)
(* Lines 345-350: every pinned object is released.                         *)
(***************************************************************************)
RECURSIVE ReleaseLog(_, _, _)
\* the log entries of the loop over positions k..n
ReleaseLog(log, k, n) ==
    IF k >= n THEN log
    ELSE ReleaseLog(Append(log, <<"ReleaseReference", k, NO_ERROR>>), k + 1, n)

\* the loop stops one position early
ReleasedPositions_StopsEarly(n) == 1 .. n - 1

\* the positions whose reference the loop releases
ReleasedPositions(n) == 1 .. n

Cleanup(t) ==
    /\ th[t].pc = "Cleanup"
    /\ LET objs == th[t].ppIPalObjs
           rel == ReleasedPositions(th[t].nCount)
       IN /\ refCount' = [o \in Objects |->
                 refCount[o] - Cardinality({k \in rel : objs[k] = o})]
          /\ th' = [th EXCEPT
                 ![t].ops = ReleaseLog(th[t].ops, 0, Cardinality(rel)),
                 ![t].ppIPalObjs = [k \in DOMAIN objs |->
                                       IF k \in rel THEN NULL ELSE objs[k]],
                 ![t].pc = "Exit"]
    /\ UNCHANGED <<signaled, abandoned, owner, waiters, ctrlHeld>>

(***************************************************************************)
(* Lines 352-359: the heap arrays are freed and the call returns.          *)
(***************************************************************************)
Freed(h) == IF h = "allocated" THEN "freed" ELSE h

Exit(t) ==
    /\ th[t].pc = "Exit"
    /\ IF NeedsHeapArrays(th[t].nCount)
       THEN th' = [th EXCEPT ![t].heapObjs = Freed(@),
                             ![t].heapCtrls = Freed(@),
                             ![t].pc = "Done"]
       ELSE th' = [th EXCEPT ![t].pc = "Done"]
    /\ UNCHANGED <<refCount, signaled, abandoned, owner, waiters, ctrlHeld>>

(***************************************************************************)
(* Line 359: the call has returned dwRet; its frame is gone.  The thread's *)
(* last error and the state of the objects stay.                           *)
(***************************************************************************)
Return(t) ==
    /\ th[t].pc = "Done"
    /\ th' = [th EXCEPT ![t] = [IdleThread EXCEPT
                                  !.calls = th[t].calls,
                                  !.lastError = th[t].lastError]]
    /\ UNCHANGED <<refCount, signaled, abandoned, owner, waiters, ctrlHeld>>

Step(t) ==
    \/ Call(t)
    \/ WaitForSingleObject(t)
    \/ Validate(t)
    \/ Resolve(t)
    \/ Gate(t)
    \/ GetControllers(t)
    \/ CheckAlertable(t)
    \/ PreCheck(t)
    \/ Decide(t)
    \/ Consume(t)
    \/ Register(t)
    \/ ReleaseControllers(t)
    \/ BlockThread(t)
    \/ MapIndex(t)
    \/ Cleanup(t)
    \/ Exit(t)
    \/ Return(t)

Next == \E t \in SeqThreads : Step(t)

Spec == Init /\ [][Next]_vars

(***************************************************************************)
(* The synchronization manager with a signaler.  Another thread signals an *)
(* object through the object's controller, so not while a waiter holds     *)
(* one; the signal wakes the threads registered on the object (one of them *)
(* when the object has exclusive-owner semantics, and the signal is then   *)
(* handed to that thread; all of them otherwise), or stays on the object   *)
(* when nobody waits.  A blocked thread with a finite timeout is woken     *)
(* when the timeout expires first.  BlockThread returns the pending        *)
(* wakeup.                                                                 *)
(***************************************************************************)
NoWake == [reason |-> "None", idx |-> -1]

\* the index t passed when it registered on o
RegisteredIndex(t, o) ==
    CHOOSE k \in 0 .. th[t].nCount - 1 :
        /\ th[t].ppIPalObjs[k + 1] = o
        /\ \A j \in 0 .. k - 1 : th[t].ppIPalObjs[j + 1] # o

Signal(o) ==
    /\ \A t \in Threads : ctrlHeld[t] = 0
    /\ LET sleepers == {t \in waiters[o] : th[t].wake = NoWake}
           wokenAt(t) == [reason |-> "WaitSucceeded",
                          idx |-> RegisteredIndex(t, o)]
       IN IF sleepers = {}
          THEN /\ signaled' = [signaled EXCEPT ![o] = TRUE]
               /\ UNCHANGED <<th, owner>>
          ELSE IF ConsumeClearsSignal(o)
          THEN \E t \in sleepers :
                 /\ th' = [th EXCEPT ![t].wake = wokenAt(t)]
                 /\ owner' = [owner EXCEPT ![o] = t]
                 /\ UNCHANGED signaled
          ELSE /\ th' = [t \in Threads |->
                           IF t \in sleepers
                           THEN [th[t] EXCEPT !.wake = wokenAt(t)]
                           ELSE th[t]]
               /\ signaled' = [signaled EXCEPT ![o] = TRUE]
               /\ UNCHANGED owner
    /\ UNCHANGED <<refCount, abandoned, waiters, ctrlHeld>>

TimeoutExpires(t) ==
    /\ th[t].pc = "BlockThread"
    /\ th[t].dwMilliseconds # INFINITE
    /\ th[t].wake = NoWake
    /\ th' = [th EXCEPT ![t].wake = [reason |-> "WaitTimeout",
                                     idx |-> th[t].iSignaledObjIndex]]
    /\ UNCHANGED <<refCount, signaled, abandoned, owner, waiters, ctrlHeld>>

\* lines 285-325 with this manager: BlockThread returns once a wakeup is
\* pending
BlockThreadWoken(t) ==
    /\ th[t].pc = "BlockThread"
    /\ th[t].wake # NoWake
    /\ th' = [th EXCEPT
                ![t].palErr = NO_ERROR,
                ![t].ops = Log(t, "BlockThread", 0, th[t].wake.reason),
                ![t].iSignaledObjIndex = th[t].wake.idx,
                ![t].dwRet = WakeupResult(th[t].wake.reason),
                ![t].path = "Woken",
                ![t].pc = "MapIndex"]
    /\ waiters' = [o \in Objects |-> waiters[o] \ {t}]
    /\ UNCHANGED <<refCount, signaled, abandoned, owner, ctrlHeld>>

\* a thread that waits through WaitForSingleObject
StepSig(t) ==
    \/ WaitForSingleObject(t)
    \/ Validate(t)
    \/ Resolve(t)
    \/ Gate(t)
    \/ GetControllers(t)
    \/ CheckAlertable(t)
    \/ PreCheck(t)
    \/ Decide(t)
    \/ Consume(t)
    \/ Register(t)
    \/ ReleaseControllers(t)
    \/ BlockThreadWoken(t)
    \/ MapIndex(t)
    \/ Cleanup(t)
    \/ Exit(t)
    \/ Return(t)

NextSig ==
    \/ \E t \in SeqThreads : StepSig(t)
    \/ \E t \in SeqThreads : TimeoutExpires(t)
    \/ \E o \in Objects : Signal(o)

\* A thread that can take a step of its call eventually takes it (it is
\* scheduled), and a timeout that can expire eventually does.
SpecSig ==
    /\ Init
    /\ [][NextSig]_vars
    /\ \A t \in SeqThreads : WF_vars(StepSig(t))
    /\ \A t \in SeqThreads : WF_vars(TimeoutExpires(t))

(***************************************************************************)
(* What a call did, read from its log.                                     *)
(***************************************************************************)
InCall(t) == th[t].pc # "Idle"
Returned(t) == th[t].pc = "Done"

Invoked(t, op) == \E k \in DOMAIN th[t].ops : th[t].ops[k][1] = op

Succeeded(t, op) ==
    \E k \in DOMAIN th[t].ops :
        th[t].ops[k][1] = op /\ th[t].ops[k][3] = NO_ERROR

TimesInvoked(t, op, idx) ==
    Cardinality({k \in DOMAIN th[t].ops :
                    th[t].ops[k][1] = op /\ th[t].ops[k][2] = idx})

IsReleaseReference(e) == e[1] = "ReleaseReference"

\* the count is one the call accepts, written out as in the documentation
CountInRange(n) == n >= 1 /\ n <= 64

\* the object the only handle of a single-object request resolved to
SingleObject(t) == HandleTable(th[t].lpHandles[1])

(***************************************************************************)
(* C1.  When a call has returned, whatever path it took, the reference     *)
(* count of every object is what it was at entry, and the call released    *)
(* each reference the resolve step pinned exactly once: positions          *)
(* 0..nCount-1 in order when the resolve succeeded, none otherwise.        *)
(***************************************************************************)
C1_ReferencesReleasedOnce ==
    \A t \in Threads :
        Returned(t) =>
            LET rel == SelectSeq(th[t].ops, IsReleaseReference)
                pinned == IF Succeeded(t, "ReferenceMultipleObjectsByHandleArray")
                          THEN th[t].nCount ELSE 0
            IN /\ refCount = th[t].refAtEntry
               /\ Len(rel) = pinned
               /\ \A k \in DOMAIN rel : rel[k][2] = k - 1

\* a call that pinned its object, blocked and was woken has returned
C1_Witness ==
    \E t \in Threads :
        /\ Returned(t)
        /\ th[t].path = "Woken"
        /\ Succeeded(t, "ReferenceMultipleObjectsByHandleArray")

(***************************************************************************)
(* C2.  When a call that acquired its wait controllers has returned, every *)
(* one of them has been released: the thread holds no more controllers     *)
(* than at entry and no entry of the controller array is still set.        *)
(***************************************************************************)
C2_ControllersReleasedAtReturn ==
    \A t \in Threads :
        (Returned(t) /\ Succeeded(t, "GetSynchWaitControllersForObjects")) =>
            /\ ctrlHeld[t] = th[t].ctrlAtEntry
            /\ \A k \in DOMAIN th[t].ppISyncWaitCtrlrs :
                   th[t].ppISyncWaitCtrlrs[k] = NULL

(***************************************************************************)
(* C3.  A call whose count is 0 or above 64 calls no collaborator at all   *)
(* (no resolve, no controller acquisition or operation, no release, no     *)
(* blocking), changes no reference count, and returns WAIT_FAILED with     *)
(* last error ERROR_INVALID_PARAMETER.                                     *)
(***************************************************************************)
C3_InvalidCountAcquiresNothing ==
    \A t \in Threads :
        (InCall(t) /\ ~CountInRange(th[t].nCount)) =>
            /\ th[t].ops = <<>>
            /\ th[t].pc \in {"Validate", "Exit", "Done"}
            /\ refCount = th[t].refAtEntry
            /\ ctrlHeld[t] = th[t].ctrlAtEntry
            /\ Returned(t) => /\ th[t].dwRet = WAIT_FAILED
                              /\ th[t].lastError = "ERROR_INVALID_PARAMETER"

\* a call with 65 handles has returned
C3_Witness ==
    \E t \in Threads :
        /\ Returned(t)
        /\ th[t].nCount = MAXIMUM_WAIT_OBJECTS + 1
        /\ th[t].lastError = "ERROR_INVALID_PARAMETER"

(***************************************************************************)
(* C4, as stated.  Every request with count > 1 returns WAIT_FAILED with   *)
(* last error ERROR_NOT_SUPPORTED, acquires no controller and consumes no  *)
(* signal.                                                                 *)
(***************************************************************************)
C4_AnyMultiObjectNotSupported ==
    \A t \in Threads :
        (Returned(t) /\ DWordGreater(th[t].nCount, 1)) =>
            /\ th[t].dwRet = WAIT_FAILED
            /\ th[t].lastError = "ERROR_NOT_SUPPORTED"
            /\ ~Invoked(t, "GetSynchWaitControllersForObjects")
            /\ ~Invoked(t, "ReleaseWaitingThreadWithoutBlocking")

(***************************************************************************)
(* C4, amended.  Every request with count > 1 returns WAIT_FAILED,         *)
(* acquires no controller and consumes no signal; its last error is        *)
(* ERROR_NOT_SUPPORTED when the count is at most 64 and the handles were   *)
(* all resolved, for wait-all and wait-any alike and whatever the state    *)
(* of the objects.                                                         *)
(***************************************************************************)
C4_MultiObjectNotSupported ==
    \A t \in Threads :
        (Returned(t) /\ DWordGreater(th[t].nCount, 1)) =>
            /\ th[t].dwRet = WAIT_FAILED
            /\ ~Invoked(t, "GetSynchWaitControllersForObjects")
            /\ ~Invoked(t, "ReleaseWaitingThreadWithoutBlocking")
            /\ (/\ CountInRange(th[t].nCount)
                /\ Succeeded(t, "ReferenceMultipleObjectsByHandleArray"))
               => th[t].lastError = "ERROR_NOT_SUPPORTED"

\* a wait-all on two signaled objects has been refused
C4_Witness ==
    \E t \in Threads :
        /\ Returned(t)
        /\ th[t].nCount = 2
        /\ th[t].bWaitAll
        /\ th[t].lastError = "ERROR_NOT_SUPPORTED"
        /\ \A k \in 1 .. 2 : signaled[HandleTable(th[t].lpHandles[k])]

(***************************************************************************)
(* C5, as stated.  A call naming a handle of an object that is neither a   *)
(* process nor a thread returns WAIT_FAILED with last error                *)
(* ERROR_INVALID_HANDLE, and has not asked for the wait controllers.       *)
(***************************************************************************)
NamesDisallowedKind(t) ==
    \E k \in DOMAIN th[t].lpHandles :
        /\ HandleTable(th[t].lpHandles[k]) # NULL
        /\ ObjectKind(HandleTable(th[t].lpHandles[k]))
               \notin {"otiProcess", "otiThread"}

C5_AnyDisallowedKindInvalidHandle ==
    \A t \in Threads :
        (Returned(t) /\ NamesDisallowedKind(t)) =>
            /\ th[t].dwRet = WAIT_FAILED
            /\ th[t].lastError = "ERROR_INVALID_HANDLE"
            /\ ~Invoked(t, "GetSynchWaitControllersForObjects")

(***************************************************************************)
(* C5, amended.  A call naming a handle of an object that is neither a     *)
(* process nor a thread never asks for the wait controllers and returns    *)
(* WAIT_FAILED; its last error is ERROR_INVALID_HANDLE when the count is   *)
(* in [1, 64] and the working arrays were allocated.                       *)
(***************************************************************************)
C5_DisallowedKindInvalidHandle ==
    \A t \in Threads :
        (InCall(t) /\ NamesDisallowedKind(t)) =>
            /\ ~Invoked(t, "GetSynchWaitControllersForObjects")
            /\ Returned(t) => th[t].dwRet = WAIT_FAILED
            /\ (/\ Returned(t)
                /\ CountInRange(th[t].nCount)
                /\ th[t].path # "OutOfMemory")
               => th[t].lastError = "ERROR_INVALID_HANDLE"

\* a wait on the handle of a mutex has been refused
C5_Witness ==
    \E t \in Threads :
        /\ Returned(t)
        /\ th[t].lpHandles = <<"hMutex">>
        /\ th[t].lastError = "ERROR_INVALID_HANDLE"

(***************************************************************************)
(* C6, as stated.  Every alertable call returns WAIT_FAILED with last      *)
(* error ERROR_INTERNAL_ERROR and never registers the thread, consumes a   *)
(* signal or blocks.                                                       *)
(***************************************************************************)
C6_AnyAlertableInternalError ==
    \A t \in Threads :
        (Returned(t) /\ th[t].bAlertable) =>
            /\ th[t].dwRet = WAIT_FAILED
            /\ th[t].lastError = "ERROR_INTERNAL_ERROR"
            /\ ~Invoked(t, "RegisterWaitingThread")
            /\ ~Invoked(t, "ReleaseWaitingThreadWithoutBlocking")
            /\ ~Invoked(t, "BlockThread")

(***************************************************************************)
(* C6, amended.  Every alertable call returns WAIT_FAILED and never        *)
(* registers the thread, consumes a signal or blocks; its last error is    *)
(* ERROR_INTERNAL_ERROR when the count is 1 and the handle was resolved.   *)
(***************************************************************************)
C6_AlertableFails ==
    \A t \in Threads :
        (InCall(t) /\ th[t].bAlertable) =>
            /\ ~Invoked(t, "RegisterWaitingThread")
            /\ ~Invoked(t, "ReleaseWaitingThreadWithoutBlocking")
            /\ ~Invoked(t, "BlockThread")
            /\ th[t].pc # "BlockThread"
            /\ \A o \in Objects : t \notin waiters[o]
            /\ Returned(t) => th[t].dwRet = WAIT_FAILED
            /\ (/\ Returned(t)
                /\ th[t].nCount = 1
                /\ Succeeded(t, "ReferenceMultipleObjectsByHandleArray"))
               => th[t].lastError = "ERROR_INTERNAL_ERROR"

\* an alertable wait on one signaled object has been refused at the
\* alertable check
C6_Witness ==
    \E t \in Threads :
        /\ Returned(t)
        /\ th[t].bAlertable
        /\ th[t].nCount = 1
        /\ Succeeded(t, "GetSynchWaitControllersForObjects")
        /\ signaled[SingleObject(t)]

(***************************************************************************)
(* C7.  A call that ends with a validation rejection (count out of range,  *)
(* handle not resolved, more than one object, duplicate in a wait-all,     *)
(* alertable) never asked for the wait controllers.                        *)
(***************************************************************************)
ValidationRejections ==
    {"InvalidCount", "ResolveFailed", "NotSupported", "Duplicate", "Alertable"}

C7_RejectedBeforeControllers ==
    \A t \in Threads :
        (Returned(t) /\ th[t].path \in ValidationRejections) =>
            ~Invoked(t, "GetSynchWaitControllersForObjects")

(***************************************************************************)
(* C8, as stated.  A non-alertable call with count 1 and timeout 0 whose   *)
(* pre-check reported the object satisfied and not abandoned returns       *)
(* WAIT_OBJECT_0, consumed the signal through the controller exactly once, *)
(* never registered or blocked, and leaves the object consumed.            *)
(***************************************************************************)
PolledSatisfied(t) ==
    /\ Returned(t)
    /\ th[t].nCount = 1
    /\ ~th[t].bAlertable
    /\ th[t].dwMilliseconds = 0
    /\ Succeeded(t, "CanThreadWaitWithoutBlocking")
    /\ th[t].iSignaledObjCount = 1
    /\ ~th[t].fAbandoned

ObjectConsumedBy(t, o) ==
    /\ owner[o] = t
    /\ ConsumeClearsSignal(o) => ~signaled[o]

C8_AnyPolledSatisfiedReturnsObject0 ==
    \A t \in Threads :
        PolledSatisfied(t) =>
            /\ th[t].dwRet = WAIT_OBJECT_0
            /\ TimesInvoked(t, "ReleaseWaitingThreadWithoutBlocking", 0) = 1
            /\ ~Invoked(t, "RegisterWaitingThread")
            /\ ~Invoked(t, "BlockThread")
            /\ ObjectConsumedBy(t, SingleObject(t))

(***************************************************************************)
(* C8, amended.  Such a call consumes the signal through the controller    *)
(* exactly once and never registers or blocks; when that consume           *)
(* operation returns no error, the call returns WAIT_OBJECT_0 and leaves   *)
(* the object consumed.                                                    *)
(***************************************************************************)
C8_PolledSatisfiedReturnsObject0 ==
    \A t \in Threads :
        PolledSatisfied(t) =>
            /\ TimesInvoked(t, "ReleaseWaitingThreadWithoutBlocking", 0) = 1
            /\ ~Invoked(t, "RegisterWaitingThread")
            /\ ~Invoked(t, "BlockThread")
            /\ Succeeded(t, "ReleaseWaitingThreadWithoutBlocking") =>
                   /\ th[t].dwRet = WAIT_OBJECT_0
                   /\ ObjectConsumedBy(t, SingleObject(t))

\* a poll of the signaled thread object has returned WAIT_OBJECT_0
C8_Witness ==
    \E t \in Threads :
        /\ PolledSatisfied(t)
        /\ SingleObject(t) = "oThread"
        /\ th[t].dwRet = WAIT_OBJECT_0

(***************************************************************************)
(* C9.  A non-alertable call with count 1 and timeout 0 whose pre-check    *)
(* reported the object not satisfied returns WAIT_TIMEOUT and never        *)
(* registers the thread, consumes a signal or blocks.                      *)
(***************************************************************************)
PolledUnsatisfied(t) ==
    /\ Returned(t)
    /\ th[t].nCount = 1
    /\ ~th[t].bAlertable
    /\ th[t].dwMilliseconds = 0
    /\ Succeeded(t, "CanThreadWaitWithoutBlocking")
    /\ th[t].iSignaledObjCount = 0

C9_PolledUnsatisfiedTimesOut ==
    \A t \in Threads :
        PolledUnsatisfied(t) =>
            /\ th[t].dwRet = WAIT_TIMEOUT
            /\ ~Invoked(t, "RegisterWaitingThread")
            /\ ~Invoked(t, "ReleaseWaitingThreadWithoutBlocking")
            /\ ~Invoked(t, "BlockThread")

\* a poll of an object that is not signaled has returned
C9_Witness ==
    \E t \in Threads :
        /\ PolledUnsatisfied(t)
        /\ ~signaled[SingleObject(t)]
        /\ th[t].dwRet = WAIT_TIMEOUT

(***************************************************************************)
(* C10.  A call with timeout 0 never reaches the blocking primitive,       *)
(* whatever its count, flags, the state of the objects and the errors      *)
(* the collaborators return.                                               *)
(***************************************************************************)
C10_ZeroTimeoutNeverBlocks ==
    \A t \in Threads :
        (InCall(t) /\ th[t].dwMilliseconds = 0) =>
            /\ th[t].pc # "BlockThread"
            /\ ~Invoked(t, "BlockThread")

\* a poll that found blocking necessary has returned
C10_Witness ==
    \E t \in Threads :
        /\ Returned(t)
        /\ th[t].dwMilliseconds = 0
        /\ th[t].path = "ZeroTimeout"

(***************************************************************************)
(* C11.  A single-object call that found its object not signaled, has a    *)
(* timeout other than 0 and is signaled by another thread before the       *)
(* timeout expires (the manager holds a WaitSucceeded wakeup for it)       *)
(* eventually returns from that call with WAIT_OBJECT_0 + 0; such a call   *)
(* never returns anything else, WAIT_TIMEOUT included.                     *)
(***************************************************************************)
SignaledBeforeExpiry(t) ==
    /\ InCall(t)
    /\ th[t].nCount = 1
    /\ th[t].dwMilliseconds # 0
    /\ th[t].iSignaledObjCount = 0
    /\ th[t].wake.reason = "WaitSucceeded"

GeneralWaitEntered(t, n, hs, all, ms, al) ==
    [IdleThread EXCEPT
       !.pc = "Validate", !.calls = th[t].calls,
       !.entry = "InternalWaitForMultipleObjectsEx",
       !.nCount = n, !.lpHandles = hs, !.bWaitAll = all,
       !.dwMilliseconds = ms, !.bAlertable = al,
       !.fWAll = all,
       !.lastError = th[t].errAtEntry,
       !.errAtEntry = th[t].errAtEntry,
       !.refAtEntry = th[t].refAtEntry,
       !.objAtEntry = th[t].objAtEntry,
       !.ctrlAtEntry = th[t].ctrlAtEntry]

C17_SingleObjectIsGeneralWait ==
    \A t \in SeqThreads :
        th[t].entry = "WaitForSingleObject" =>
            /\ th[t].nCount = 1
            /\ Len(th[t].lpHandles) = 1
            /\ ~th[t].bWaitAll
            /\ ~th[t].bAlertable
            /\ th[t].pc = "Validate" =>
                 [th[t] EXCEPT !.entry = "InternalWaitForMultipleObjectsEx"]
                   = GeneralWaitEntered(t, 1, <<th[t].lpHandles[1]>>, FALSE,
                                        th[t].dwMilliseconds, FALSE)

\* a WaitForSingleObject call has gone through the general wait and returned
C17_Witness ==
    \E t \in SeqThreads :
        /\ Returned(t)
        /\ th[t].entry = "WaitForSingleObject"
        /\ Invoked(t, "RegisterWaitingThread")
        /\ th[t].dwRet = WAIT_TIMEOUT

(***************************************************************************)
(* C13.  A call that is not a wait-all, blocked and was woken with reason  *)
(* WaitSucceeded or MutexAbondoned at a reported index outside             *)
(* 0 .. count - 1 returns WAIT_FAILED with last error                      *)
(* ERROR_INTERNAL_ERROR.                                                   *)
(***************************************************************************)
\* BlockThread returned without error and reported this reason
WokenWith(t, reason) ==
    \E k \in 1 .. Len(th[t].ops) : th[t].ops[k] = <<"BlockThread", 0, reason>>

C13_OutOfRangeIndexFails ==
    \A t \in SeqThreads :
        /\ Returned(t)
        /\ ~th[t].fWAll
        /\ WokenWith(t, "WaitSucceeded") \/ WokenWith(t, "MutexAbondoned")
        /\ th[t].iSignaledObjIndex \notin 0 .. th[t].nCount - 1
        => /\ th[t].dwRet = WAIT_FAILED
           /\ th[t].lastError = "ERROR_INTERNAL_ERROR"

(***************************************************************************)
(* C14.  After BlockThread returns without error the result follows the    *)
(* wakeup reason: WaitSucceeded gives WAIT_OBJECT_0 + reported index,      *)
(* MutexAbondoned gives WAIT_ABANDONED_0 + reported index, WaitTimeout     *)
(* gives WAIT_TIMEOUT, WaitFailed and every other reason give WAIT_FAILED. *)
(***************************************************************************)
\* the reason BlockThread reported when it returned without error
ReportedReason(t) ==
    CHOOSE reason \in WakeupReasons : WokenWith(t, reason)

BlockThreadReturned(t) ==
    /\ Returned(t)
    /\ \E reason \in WakeupReasons : WokenWith(t, reason)

\* the mapping as the claim words it, for every reported index
C14_AnyIndexMappedByReason ==
    \A t \in SeqThreads :
        BlockThreadReturned(t) =>
            th[t].dwRet =
                CASE ReportedReason(t) = "WaitSucceeded" ->
                         DWordAdd(WAIT_OBJECT_0, th[t].iSignaledObjIndex)
                  [] ReportedReason(t) = "MutexAbondoned" ->
                         DWordAdd(WAIT_ABANDONED_0, th[t].iSignaledObjIndex)
                  [] ReportedReason(t) = "WaitTimeout" -> WAIT_TIMEOUT
                  [] OTHER -> WAIT_FAILED

\* the mapping with the index added only when it is not negative
C14_ResultMappedByReason ==
    \A t \in SeqThreads :
        BlockThreadReturned(t) =>
            LET idx == th[t].iSignaledObjIndex
                satisfied == ReportedReason(t) \in
                                 {"WaitSucceeded", "MutexAbondoned"}
            IN /\ th[t].dwRet =
                    CASE ReportedReason(t) = "WaitSucceeded" /\ idx >= 0 ->
                             DWordAdd(WAIT_OBJECT_0, idx)
                      [] ReportedReason(t) = "MutexAbondoned" /\ idx >= 0 ->
                             DWordAdd(WAIT_ABANDONED_0, idx)
                      [] ReportedReason(t) = "WaitTimeout" -> WAIT_TIMEOUT
                      [] OTHER -> WAIT_FAILED
               /\ satisfied /\ idx < 0 =>
                    th[t].lastError = "ERROR_INTERNAL_ERROR"

\* a call woken as abandoned at index 0 has returned WAIT_ABANDONED_0
C14_Witness ==
    \E t \in SeqThreads :
        /\ BlockThreadReturned(t)
        /\ ReportedReason(t) = "MutexAbondoned"
        /\ th[t].iSignaledObjIndex = 0
        /\ th[t].dwRet = WAIT_ABANDONED_0

(***************************************************************************)
(* C18.  When the controller acquisition, a controller operation or        *)
(* BlockThread returned an error during a call, the call returns           *)
(* WAIT_FAILED and its last error is ERROR_INTERNAL_ERROR, not the error   *)
(* code the manager or the controller returned.                            *)
(***************************************************************************)
ManagerOperations ==
    {"GetSynchWaitControllersForObjects", "CanThreadWaitWithoutBlocking",
     "ReleaseWaitingThreadWithoutBlocking", "RegisterWaitingThread",
     "BlockThread"}

\* an operation of the manager or of a controller returned an error
ManagerFailed(t) ==
    \E k \in DOMAIN th[t].ops :
        /\ th[t].ops[k][1] \in ManagerOperations
        /\ th[t].ops[k][3] \in ManagerErrors

C18_ManagerErrorsReportedAsInternal ==
    \A t \in Threads :
        Returned(t) /\ ManagerFailed(t) =>
            /\ th[t].dwRet = WAIT_FAILED
            /\ th[t].lastError = "ERROR_INTERNAL_ERROR"

(***************************************************************************)
(* C20.  A call that returns WAIT_TIMEOUT, from the zero-timeout path or   *)
(* after being woken with reason WaitTimeout, has invoked                  *)
(* ReleaseWaitingThreadWithoutBlocking on no controller: it consumed no    *)
(* object's signal.                                                        *)
(***************************************************************************)
C20_TimedOutConsumesNothing ==
    \A t \in Threads :
        Returned(t) /\ th[t].dwRet = WAIT_TIMEOUT =>
            /\ ~Invoked(t, "ReleaseWaitingThreadWithoutBlocking")
            /\ th[t].path = "ZeroTimeout" \/ WokenWith(t, "WaitTimeout")

\* a blocked call has returned WAIT_TIMEOUT after its timeout expired
C20_Witness ==
    \E t \in Threads :
        /\ Returned(t)
        /\ th[t].dwRet = WAIT_TIMEOUT
        /\ WokenWith(t, "WaitTimeout")
        /\ th[t].dwMilliseconds = 1

(***************************************************************************)
(* C19.  When a call has returned, the positions whose signal it consumed  *)
(* through ReleaseWaitingThreadWithoutBlocking are none, or exactly the    *)
(* required ones (the satisfied position of a wait that is not a wait-all, *)
(* every position of a wait-all); and a call that returns a satisfied or   *)
(* abandoned result from the fast path consumed exactly the required ones. *)
(***************************************************************************)
\* positions on which ReleaseWaitingThreadWithoutBlocking succeeded
ConsumedPositions(t) ==
    {th[t].ops[k][2] : k \in
        {j \in DOMAIN th[t].ops :
            /\ th[t].ops[j][1] = "ReleaseWaitingThreadWithoutBlocking"
            /\ th[t].ops[j][3] = NO_ERROR}}

\* lines 215-224: the positions the fast path has to consume
RequiredPositions(t) ==
    IF th[t].fWAll THEN 0 .. th[t].nCount - 1
    ELSE {th[t].iSignaledObjIndex}

\* the call returns a satisfied or abandoned result without having blocked
FastPathSatisfied(t) ==
    /\ Returned(t)
    /\ th[t].path = "FastPath"
    /\ th[t].dwRet \notin {WAIT_FAILED, WAIT_TIMEOUT}

C19_NoPartialConsumption ==
    \A t \in Threads :
        Returned(t) =>
            /\ \/ ConsumedPositions(t) = {}
               \/ ConsumedPositions(t) = RequiredPositions(t)
            /\ FastPathSatisfied(t) =>
                 ConsumedPositions(t) = RequiredPositions(t)

\* a call whose only consume operation failed has returned WAIT_FAILED
\* with nothing consumed
C19_Witness ==
    \E t \in Threads :
        /\ Returned(t)
        /\ th[t].path = "ConsumeFailed"
        /\ Invoked(t, "ReleaseWaitingThreadWithoutBlocking")
        /\ ConsumedPositions(t) = {}
        /\ th[t].dwRet = WAIT_FAILED

(***************************************************************************)
(* C12.  A single-object call on an object flagged abandoned returns       *)
(* WAIT_ABANDONED_0 + 0 rather than WAIT_OBJECT_0: on the fast path, when  *)
(* the pre-check finds the object satisfiable and abandoned (the signal is *)
(* consumed through the controller, so the caller owns the object), and    *)
(* when the thread blocked and was woken with reason MutexAbondoned.       *)
(***************************************************************************)
\* the pre-check found the only object satisfiable and abandoned
PreCheckedAbandoned(t) ==
    /\ Returned(t)
    /\ th[t].nCount = 1
    /\ ~th[t].bAlertable
    /\ Succeeded(t, "CanThreadWaitWithoutBlocking")
    /\ th[t].iSignaledObjCount = 1
    /\ th[t].fAbandoned

WokenAbandoned(t) ==
    /\ Returned(t)
    /\ th[t].nCount = 1
    /\ WokenWith(t, "MutexAbondoned")

\* as the claim words it: whatever the consume operation returns and
\* whatever index the manager reports
C12_AnyAbandonedReturnsAbandoned0 ==
    \A t \in Threads :
        /\ PreCheckedAbandoned(t) =>
              /\ th[t].dwRet = WAIT_ABANDONED_0
              /\ ObjectConsumedBy(t, SingleObject(t))
        /\ WokenAbandoned(t) => th[t].dwRet = WAIT_ABANDONED_0

\* with the consume operation succeeding and the reported index 0
C12_AbandonedReturnsAbandoned0 ==
    \A t \in Threads :
        /\ PreCheckedAbandoned(t) =>
              IF Succeeded(t, "ReleaseWaitingThreadWithoutBlocking")
              THEN /\ th[t].dwRet = WAIT_ABANDONED_0
                   /\ TimesInvoked(t, "ReleaseWaitingThreadWithoutBlocking",
                                   0) = 1
                   /\ ObjectConsumedBy(t, SingleObject(t))
              ELSE th[t].dwRet = WAIT_FAILED
        /\ WokenAbandoned(t) =>
              IF th[t].iSignaledObjIndex = 0
              THEN th[t].dwRet = WAIT_ABANDONED_0
              ELSE th[t].dwRet # WAIT_OBJECT_0

\* a call has taken an abandoned object on the fast path
C12_Witness ==
    \E t \in Threads :
        /\ PreCheckedAbandoned(t)
        /\ Succeeded(t, "ReleaseWaitingThreadWithoutBlocking")
        /\ th[t].dwRet = WAIT_ABANDONED_0
        /\ owner[SingleObject(t)] = t
        /\ ~abandoned[SingleObject(t)]

(***************************************************************************)
(* C16.  For count 1 the wait-all flag has no effect: once the count check *)
(* is passed, a call that was given wait-all TRUE is in the state of the   *)
(* call that was given FALSE (only the record of the argument differs),    *)
(* and for the rest of the call the flag the code works with is FALSE and  *)
(* the wait type it registers with is SingleObject.  From equal states the *)
(* two calls perform the same operations, return the same value and last   *)
(* error and leave the same state.                                         *)
(***************************************************************************)
C16_WaitAllIgnoredForOneObject ==
    \A t \in Threads :
        InCall(t) /\ th[t].nCount = 1 /\ th[t].pc # "Validate" =>
            /\ ~th[t].fWAll
            /\ th[t].wtWaitType = "SingleObject"
            /\ th[t].pc = "Resolve" =>
                 [th[t] EXCEPT !.bWaitAll = FALSE] =
                     [GeneralWaitEntered(t, 1, th[t].lpHandles, FALSE,
                                         th[t].dwMilliseconds,
                                         th[t].bAlertable)
                        EXCEPT !.pc = "Resolve",
                               !.wtWaitType = "SingleObject",
                               !.entry = th[t].entry]

\* a call of one object given wait-all TRUE has blocked as a single-object
\* wait and returned the object
C16_Witness ==
    \E t \in Threads :
        /\ Returned(t)
        /\ th[t].nCount = 1
        /\ th[t].bWaitAll
        /\ Succeeded(t, "RegisterWaitingThread")
        /\ th[t].wtWaitType = "SingleObject"
        /\ th[t].dwRet = WAIT_OBJECT_0

(***************************************************************************)
(* C15.  A call with count 1 and timeout 0 on an object that is not        *)
(* signaled returns WAIT_TIMEOUT and leaves the object as it found it:     *)
(* signaled flag, abandoned flag, owner, registered waiters and reference  *)
(* count are what they were at entry.  The next such call starts from the  *)
(* same object state, so the same holds of any number of consecutive       *)
(* calls.                                                                  *)
(***************************************************************************)
\* a returned call that polled the object its handle names, which was not
\* signaled at entry
PolledNotSignaled(t) ==
    /\ Returned(t)
    /\ th[t].nCount = 1
    /\ th[t].dwMilliseconds = 0
    /\ HandleResolves(th[t].lpHandles[1])
    /\ ~th[t].objAtEntry.signaled[SingleObject(t)]

ObjectStateRestored(t) ==
    /\ ObjectState = th[t].objAtEntry
    /\ refCount = th[t].refAtEntry

\* as the claim words it: every such call times out
C15_AnyPollTimesOutAndLeavesObject ==
    \A t \in Threads :
        PolledNotSignaled(t) =>
            /\ th[t].dwRet = WAIT_TIMEOUT
            /\ ObjectStateRestored(t)

\* every such call leaves the object alone, and times out unless it is
\* alertable or an operation of the registry or the manager fails
C15_PollTimesOutAndLeavesObject ==
    \A t \in Threads :
        PolledNotSignaled(t) =>
            /\ ObjectStateRestored(t)
            /\ th[t].dwRet \in {WAIT_TIMEOUT, WAIT_FAILED}
            /\ th[t].dwRet = WAIT_TIMEOUT <=>
                 /\ ~th[t].bAlertable
                 /\ Succeeded(t, "CanThreadWaitWithoutBlocking")

\* the second of two calls has polled an object that is not signaled
C15_Witness ==
    \E t \in Threads :
        /\ PolledNotSignaled(t)
        /\ th[t].calls > 1
        /\ th[t].dwRet = WAIT_TIMEOUT
        /\ ObjectStateRestored(t)

(***************************************************************************)
(* C21.  A wait-all request with a count from 2 to 64 whose handles all    *)
(* resolve and in which two positions resolve to the same object returns   *)
(* WAIT_FAILED; as stated the last error is ERROR_INVALID_PARAMETER, in    *)
(* the code it is ERROR_NOT_SUPPORTED, because the refusal of a count      *)
(* above 1 comes before the duplicate check.                               *)
(***************************************************************************)
WaitAllWithDuplicate(t) ==
    /\ Returned(t)
    /\ th[t].bWaitAll
    /\ th[t].nCount >= 2 /\ th[t].nCount <= MAXIMUM_WAIT_OBJECTS
    /\ Succeeded(t, "ReferenceMultipleObjectsByHandleArray")
    /\ \E a \in 1 .. th[t].nCount - 1 : \E b \in a + 1 .. th[t].nCount :
          HandleTable(th[t].lpHandles[a]) = HandleTable(th[t].lpHandles[b])

\* as the claim words it
C21_DuplicateIsInvalidParameter ==
    \A t \in Threads :
        WaitAllWithDuplicate(t) =>
            /\ th[t].dwRet = WAIT_FAILED
            /\ th[t].lastError = "ERROR_INVALID_PARAMETER"

\* what the code does with such a request
C21_DuplicateIsNotSupported ==
    \A t \in Threads :
        WaitAllWithDuplicate(t) =>
            /\ th[t].dwRet = WAIT_FAILED
            /\ th[t].lastError = "ERROR_NOT_SUPPORTED"
            /\ th[t].path = "NotSupported"
            /\ ~Invoked(t, "GetSynchWaitControllersForObjects")

\* a wait-all naming the same process twice has been refused
C21_Witness ==
    \E t \in Threads :
        /\ WaitAllWithDuplicate(t)
        /\ th[t].nCount = 2
        /\ th[t].lpHandles = <<"hProc", "hProc">>
        /\ th[t].lastError = "ERROR_NOT_SUPPORTED"

(***************************************************************************)
(* The result codes as a function of the outcome.  Lines 308-342 compute   *)
(* the result of a wait that is not a wait-all from the wakeup reason and  *)
(* the index; here that computation is applied to every count from 1 to    *)
(* MAXIMUM_WAIT_OBJECTS, every reason and every index below the count.     *)
(***************************************************************************)
\* lines 308-324 and 342: the result for a reason and an index in range
OutcomeCode(reason, idx) ==
    IF WakeupResult(reason) \in {WAIT_OBJECT_0, WAIT_ABANDONED_0}
    THEN DWordAdd(WakeupResult(reason), idx)
    ELSE WakeupResult(reason)

EncodeOutcome(t) ==
    /\ th[t].pc = "Idle"
    /\ \E n \in 1 .. MAXIMUM_WAIT_OBJECTS, reason \in WakeupReasons :
         \E idx \in 0 .. n - 1 :
           th' = [th EXCEPT ![t] =
                    [IdleThread EXCEPT
                       !.pc = "Done",
                       !.calls = th[t].calls,
                       !.nCount = n,
                       !.wake = [reason |-> reason, idx |-> idx],
                       !.iSignaledObjIndex = idx,
                       !.dwRet = OutcomeCode(reason, idx)]]
    /\ UNCHANGED <<refCount, signaled, abandoned, owner, waiters, ctrlHeld>>

NextCodes ==
    \/ \E t \in SeqThreads : EncodeOutcome(t)
    \/ \E t \in SeqThreads : Return(t)

SpecCodes == Init /\ [][NextCodes]_vars

(***************************************************************************)
(* C22.  For every count from 1 to 64 the codes WAIT_OBJECT_0 + i and      *)
(* WAIT_ABANDONED_0 + i for i below the count, WAIT_TIMEOUT and            *)
(* WAIT_FAILED are pairwise distinct as 32-bit values, so a result decodes *)
(* to exactly one outcome: the code computed for an outcome is the code of *)
(* no other outcome of the same count.                                     *)
(***************************************************************************)
\* the outcomes of a request of n objects
Outcomes(n) ==
    ({"Satisfied", "Abandoned"} \X (0 .. n - 1))
        \cup {<<"TimedOut", 0>>, <<"Failed", 0>>}

\* the code of an outcome, as the claim lists them
CodeOf(outcome) ==
    CASE outcome[1] = "Satisfied" -> DWordAdd(WAIT_OBJECT_0, outcome[2])
      [] outcome[1] = "Abandoned" -> DWordAdd(WAIT_ABANDONED_0, outcome[2])
      [] outcome[1] = "TimedOut" -> WAIT_TIMEOUT
      [] OTHER -> WAIT_FAILED

\* the outcomes a code stands for
Decode(code, n) == {outcome \in Outcomes(n) : CodeOf(outcome) = code}

\* the outcome a wakeup reason and index mean
OutcomeOf(reason, idx) ==
    CASE reason = "WaitSucceeded" -> <<"Satisfied", idx>>
      [] reason = "MutexAbondoned" -> <<"Abandoned", idx>>
      [] reason = "WaitTimeout" -> <<"TimedOut", 0>>
      [] OTHER -> <<"Failed", 0>>

C22_CodesDecodeToOneOutcome ==
    \A t \in Threads :
        Returned(t) =>
            Decode(th[t].dwRet, th[t].nCount) =
                {OutcomeOf(th[t].wake.reason, th[t].wake.idx)}

\* the largest abandoned code of the largest request has been computed
C22_Witness ==
    \E t \in Threads :
        /\ Returned(t)
        /\ th[t].nCount = MAXIMUM_WAIT_OBJECTS
        /\ th[t].wake = [reason |-> "MutexAbondoned",
                         idx |-> MAXIMUM_WAIT_OBJECTS - 1]
        /\ th[t].dwRet = WAIT_ABANDONED_0 + MAXIMUM_WAIT_OBJECTS - 1

(***************************************************************************)
(* C23.  When the call invokes BlockThread it holds no wait controller:    *)
(* ReleaseController has been called once on each position 0..count-1.     *)
(* After BlockThread the call invokes no operation of a controller.        *)
(***************************************************************************)
ControllerOperations ==
    {"GetSynchWaitControllersForObjects", "CanThreadWaitWithoutBlocking",
     "ReleaseWaitingThreadWithoutBlocking", "RegisterWaitingThread",
     "ReleaseController"}

C23_NoControllerHeldWhileBlocked ==
    \A t \in Threads :
        /\ th[t].pc = "BlockThread" =>
              /\ ctrlHeld[t] = th[t].ctrlAtEntry
              /\ \A k \in 0 .. th[t].nCount - 1 :
                    /\ TimesInvoked(t, "ReleaseController", k) = 1
                    /\ CtrlObject(t, k) = NULL
        /\ \A j, k \in DOMAIN th[t].ops :
              th[t].ops[j][1] = "BlockThread" /\ k > j =>
                  th[t].ops[k][1] \notin ControllerOperations

\* a call has blocked, was woken and has released its reference since
C23_Witness ==
    \E t \in Threads :
        /\ Returned(t)
        /\ WokenWith(t, "WaitSucceeded")
        /\ th[t].ops[Len(th[t].ops)][1] = "ReleaseReference"
        /\ TimesInvoked(t, "ReleaseController", 0) = 1

(***************************************************************************)
(* C24.  On the blocking path (blocking needed, timeout not 0) the call    *)
(* registers on every controller in the order 0..count-1, passing each its *)
(* position, then releases every controller, then invokes BlockThread      *)
(* once, with the timeout of the caller.  BlockThread is invoked only      *)
(* after every registration succeeded, and then it is invoked.             *)
(***************************************************************************)
IsBlockingPathOperation(e) ==
    e[1] \in {"RegisterWaitingThread", "ReleaseController", "BlockThread"}

\* the operations of the blocking path of a request of n objects, in order
BlockingPathOperations(n) ==
    [k \in 1 .. 2 * n + 1 |->
        IF k <= n THEN <<"RegisterWaitingThread", k - 1>>
        ELSE IF k <= 2 * n THEN <<"ReleaseController", k - n - 1>>
        ELSE <<"BlockThread", 0>>]

\* operation and position of the entries of a log
Operations(log) == [k \in DOMAIN log |-> <<log[k][1], log[k][2]>>]

RegistrationFailed(t) ==
    \E k \in DOMAIN th[t].ops :
        /\ th[t].ops[k][1] = "RegisterWaitingThread"
        /\ th[t].ops[k][3] # NO_ERROR

C24_RegisterReleaseThenBlock ==
    \A t \in Threads :
        /\ Invoked(t, "BlockThread") =>
              /\ Operations(SelectSeq(th[t].ops, IsBlockingPathOperation))
                    = BlockingPathOperations(th[t].nCount)
              /\ ~RegistrationFailed(t)
              /\ th[t].fNeedToBlock
              /\ th[t].iSignaledObjCount = 0
              /\ th[t].dwMilliseconds # 0
        /\ (/\ Returned(t)
            /\ th[t].fNeedToBlock
            /\ ~RegistrationFailed(t)) => Invoked(t, "BlockThread")
        /\ RegistrationFailed(t) /\ Returned(t) =>
              /\ ~Invoked(t, "BlockThread")
              /\ th[t].dwRet = WAIT_FAILED

\* a call with an infinite timeout has registered, released and blocked
C24_Witness ==
    \E t \in Threads :
        /\ Returned(t)
        /\ th[t].dwMilliseconds = INFINITE
        /\ Operations(SelectSeq(th[t].ops, IsBlockingPathOperation))
              = <<<<"RegisterWaitingThread", 0>>, <<"ReleaseController", 0>>,
                  <<"BlockThread", 0>>>>

(***************************************************************************)
(* C25.  One waiter on one object and a concurrent signaler: the signal is *)
(* never lost.  The waiter holds the controller from before its pre-check  *)
(* until after its registration, so what the pre-check saw is still true   *)
(* when it registers; a registered waiter without a pending wakeup never   *)
(* faces a signaled object; and a waiter that was signaled while           *)
(* registered leaves BlockThread and returns.                              *)
(***************************************************************************)
\* the points of the call between the acquisition of the controllers and
\* their release
HoldsControllers(t) ==
    th[t].pc \in {"CheckAlertable", "PreCheck", "Decide", "Consume", "Register"}

\* t is registered on o and nothing has woken it yet
AsleepOn(t, o) == t \in waiters[o] /\ th[t].wake = NoWake

C25_ControllerHeldAcrossCheckAndRegister ==
    \A t \in SeqThreads :
        /\ HoldsControllers(t) => ctrlHeld[t] = th[t].nCount
        /\ th[t].pc \in {"Decide", "Register"} =>
              (th[t].iSignaledObjCount = 0 <=> ~signaled[CtrlObject(t, 0)])
        /\ \A o \in Objects : AsleepOn(t, o) => ~signaled[o]

PollHandles == {"hThread", "hProc"}

\* polls a thread makes
MaxPolls == 1

PollCall(t) ==
    /\ th[t].calls < MaxPolls
    /\ WaitForSingleObjectOn(t, PollHandles, {0})

\* the objects on which t holds a controller
ControlledBy(t) ==
    {th[t].ppISyncWaitCtrlrs[k] : k \in DOMAIN th[t].ppISyncWaitCtrlrs}
        \ {NULL}

GetControllersExclusive(t) ==
    /\ \A u \in Threads \ {t} :
          ControlledBy(u) \cap
              {th[t].ppIPalObjs[k] : k \in DOMAIN th[t].ppIPalObjs} = {}
    /\ GetControllers(t)

StepPair(t) ==
    \/ PollCall(t)
    \/ Validate(t)
    \/ Resolve(t)
    \/ Gate(t)
    \/ GetControllersExclusive(t)
    \/ CheckAlertable(t)
    \/ PreCheck(t)
    \/ Decide(t)
    \/ Consume(t)
    \/ ReleaseControllers(t)
    \/ MapIndex(t)
    \/ Cleanup(t)
    \/ Exit(t)
    \/ Return(t)

NextPair == \E t \in Threads : StepPair(t)

SpecPair == Init /\ [][NextPair]_vars

(***************************************************************************)
(* C26.  Two threads poll (count 1, timeout 0) the same object, which is   *)
(* signaled once and whose consume clears the signal.  At most one of the  *)
(* two calls returns a satisfied or abandoned result and the other returns *)
(* WAIT_TIMEOUT; the two threads never hold the controller of the object   *)
(* at the same time, so the pre-check and the consume of one call are not  *)
(* separated by those of the other.                                        *)
(***************************************************************************)
\* both calls have returned from a poll of o, which was signaled when one
\* of them began
BothPolled(o) ==
    /\ ConsumeClearsSignal(o)
    /\ \A t \in Threads :
          /\ Returned(t)
          /\ th[t].nCount = 1
          /\ th[t].dwMilliseconds = 0
          /\ HandleTable(th[t].lpHandles[1]) = o
    /\ \E t \in Threads : th[t].objAtEntry.signaled[o]

ReturnedSatisfied(t) == th[t].dwRet \in {WAIT_OBJECT_0, WAIT_ABANDONED_0}

ResolveFailed(t) ==
    \E k \in DOMAIN th[t].ops :
        /\ th[t].ops[k][1] = "ReferenceMultipleObjectsByHandleArray"
        /\ th[t].ops[k][3] # NO_ERROR

C27_ResolveFailureHoldsNothing ==
    \A t \in Threads :
        Returned(t) /\ ResolveFailed(t) =>
            /\ th[t].dwRet = WAIT_FAILED
            /\ ~Invoked(t, "GetSynchWaitControllersForObjects")
            /\ ctrlHeld[t] = th[t].ctrlAtEntry
            /\ refCount = th[t].refAtEntry
            /\ SelectSeq(th[t].ops, IsReleaseReference) = <<>>
            /\ Len(th[t].ops) = 1
            /\ th[t].lastError =
                  IF \E k \in DOMAIN th[t].lpHandles :
                        ~HandleResolves(th[t].lpHandles[k])
                  THEN "ERROR_INVALID_HANDLE"
                  ELSE "ERROR_INTERNAL_ERROR"

\* a request whose first handle resolves and whose second does not has
\* returned
C27_Witness ==
    \E t \in Threads :
        /\ Returned(t)
        /\ ResolveFailed(t)
        /\ th[t].nCount = 2
        /\ HandleResolves(th[t].lpHandles[1])
        /\ ~HandleResolves(th[t].lpHandles[2])
        /\ refCount = th[t].refAtEntry

(***************************************************************************)
(* C28.  When a controller operation of the pre-check, consume or register *)
(* pass fails, the call invokes no further pre-check, consume or register  *)
(* operation and does not invoke BlockThread; it returns WAIT_FAILED, and  *)
(* every controller and every pinned object has been released once.        *)
(***************************************************************************)
PassOperations ==
    {"CanThreadWaitWithoutBlocking", "ReleaseWaitingThreadWithoutBlocking",
     "RegisterWaitingThread"}

\* the entry of the log at which an operation of a pass failed
IsPassFailure(t, k) ==
    /\ th[t].ops[k][1] \in PassOperations
    /\ th[t].ops[k][3] # NO_ERROR

C28_PassFailureStopsAndReleases ==
    \A t \in Threads :
        /\ \A j, k \in DOMAIN th[t].ops :
              IsPassFailure(t, j) /\ k > j =>
                  th[t].ops[k][1] \notin PassOperations \cup {"BlockThread"}
        /\ \A j \in DOMAIN th[t].ops :
              Returned(t) /\ IsPassFailure(t, j) =>
                  /\ th[t].dwRet = WAIT_FAILED
                  /\ ctrlHeld[t] = th[t].ctrlAtEntry
                  /\ refCount = th[t].refAtEntry
                  /\ \A i \in 0 .. th[t].nCount - 1 :
                        /\ TimesInvoked(t, "ReleaseController", i) = 1
                        /\ TimesInvoked(t, "ReleaseReference", i) = 1

\* a call whose registration failed has returned
C28_Witness ==
    \E t \in Threads :
        /\ Returned(t)
        /\ th[t].path = "RegisterFailed"
        /\ IsPassFailure(t, 4)
        /\ Len(th[t].ops) = 6

(***************************************************************************)
(* C29.  In a call that is not a wait-all the pre-check queries the        *)
(* controllers in the order 0, 1, 2, ... and stops at the first one that   *)
(* reports satisfied; the fast path reports that position, the lowest one  *)
(* whose object was satisfiable at the pre-check (0 for a count of 1).     *)
(***************************************************************************)
IsPreCheck(e) == e[1] = "CanThreadWaitWithoutBlocking"

PreChecks(t) == SelectSeq(th[t].ops, IsPreCheck)

C29_FirstSatisfiedIsReported ==
    \A t \in Threads :
        InCall(t) /\ th[t].pc # "Validate" /\ ~th[t].fWAll =>
            /\ \A k \in DOMAIN PreChecks(t) : PreChecks(t)[k][2] = k - 1
            /\ th[t].iSignaledObjCount \in {0, 1}
            /\ th[t].iSignaledObjCount = 1 =>
                  /\ th[t].pc # "PreCheck"
                  /\ th[t].iSignaledObjIndex = Len(PreChecks(t)) - 1
            /\ FastPathSatisfied(t) =>
                  /\ th[t].iSignaledObjCount = 1
                  /\ th[t].iSignaledObjIndex = Len(PreChecks(t)) - 1
                  /\ th[t].dwRet =
                        DWordAdd(IF th[t].fAbandoned THEN WAIT_ABANDONED_0
                                                     ELSE WAIT_OBJECT_0,
                                 th[t].iSignaledObjIndex)
                  /\ th[t].nCount = 1 =>
                        th[t].dwRet \in {WAIT_OBJECT_0, WAIT_ABANDONED_0}

\* a call has found its object satisfied at the pre-check and returned it
C29_Witness ==
    \E t \in Threads :
        /\ FastPathSatisfied(t)
        /\ PreChecks(t) = <<<<"CanThreadWaitWithoutBlocking", 0, NO_ERROR>>>>
        /\ th[t].iSignaledObjIndex = 0
        /\ th[t].dwRet = WAIT_OBJECT_0

(***************************************************************************)
(* C30.  Blocking is found necessary exactly when it is not the case that  *)
(* the request is not a wait-all and at least one pre-checked object was   *)
(* satisfied, or is a wait-all and all count objects were satisfied.  The  *)
(* fast path (consume and return, no registration, no blocking) is taken   *)
(* if and only if blocking is not necessary.                               *)
(***************************************************************************)
\* the condition as the claim words it
BlockingNecessary(cnt, fWAll, n) ==
    ~((~fWAll /\ cnt >= 1) \/ (fWAll /\ cnt = n))

\* the satisfied counts the pre-check can leave for a request of n objects
SatisfiedCounts(fWAll, n) == IF fWAll THEN 0 .. n ELSE {0, 1}

\* the pre-check is over and the path has been chosen
PathChosen(t) ==
    /\ InCall(t)
    /\ th[t].path \in {"FastPath", "ConsumeFailed", "NegativeStart",
                        "ZeroTimeout", "Blocking", "RegisterFailed",
                        "BlockFailed", "Woken", "NegativeIndex"}

FastPathTaken(t) ==
    th[t].path \in {"FastPath", "ConsumeFailed", "NegativeStart"}

C30_BlockingNeededIffNotSatisfied ==
    \A t \in Threads :
        /\ th[t].pc = "Decide" =>
              \A n \in 1 .. MAXIMUM_WAIT_OBJECTS, fWAll \in BOOLEAN :
                  \A cnt \in SatisfiedCounts(fWAll, n) :
                      NeedToBlock(cnt, fWAll, n)
                          <=> BlockingNecessary(cnt, fWAll, n)
        /\ PathChosen(t) =>
              /\ FastPathTaken(t) <=>
                    ~BlockingNecessary(th[t].iSignaledObjCount, th[t].fWAll,
                                       th[t].nCount)
              /\ FastPathTaken(t) =>
                    /\ ~Invoked(t, "RegisterWaitingThread")
                    /\ ~Invoked(t, "BlockThread")
                    /\ ~th[t].fNeedToBlock
              /\ ~FastPathTaken(t) =>
                    /\ ~Invoked(t, "ReleaseWaitingThreadWithoutBlocking")
                    /\ th[t].path = "ZeroTimeout"
                          \/ th[t].pc = "Register"
                          \/ Invoked(t, "RegisterWaitingThread")

\* a call has consumed its object without registering
C30_Witness ==
    \E t \in Threads :
        /\ Returned(t)
        /\ FastPathTaken(t)
        /\ th[t].dwMilliseconds = INFINITE
        /\ Succeeded(t, "ReleaseWaitingThreadWithoutBlocking")
        /\ ~Invoked(t, "RegisterWaitingThread")

(***************************************************************************)
(* C31.  ReleaseWaitingThreadWithoutBlocking is invoked on the fast path   *)
(* only, and only on a controller whose pre-check in the same call         *)
(* reported the object satisfied and that the call has not released in     *)
(* between: on the one first-satisfied controller when the wait is not a   *)
(* wait-all, on the controllers 0..count-1 in turn when it is.  No other   *)
(* thread runs here, so what the pre-check saw of an object is its state   *)
(* at the entry of the call.                                               *)
(***************************************************************************)
\* positions in the log of the consume operations
ConsumeEntries(t) ==
    {j \in DOMAIN th[t].ops :
        th[t].ops[j][1] = "ReleaseWaitingThreadWithoutBlocking"}

\* before log entry j the pre-check succeeded on the same index and found
\* the object satisfied
PreCheckedSatisfiedBefore(t, j) ==
    LET idx == th[t].ops[j][2] IN
    /\ \E k \in 1 .. j - 1 :
          th[t].ops[k] = <<"CanThreadWaitWithoutBlocking", idx, NO_ERROR>>
    /\ th[t].objAtEntry.signaled[HandleTable(th[t].lpHandles[idx + 1])]

\* before log entry j the controller of the same index was not released
NotReleasedBefore(t, j) ==
    \A k \in 1 .. j - 1 :
        th[t].ops[k][1] = "ReleaseController" =>
            th[t].ops[k][2] # th[t].ops[j][2]

\* the fast path has gone through its consume loop without a failure
ConsumeLoopDone(t) ==
    /\ th[t].path = "FastPath"
    /\ th[t].pc # "Consume"

C31_ConsumeOnlySatisfiedControllers ==
    \A t \in Threads :
        InCall(t) =>
            /\ \A j \in ConsumeEntries(t) :
                  /\ th[t].path \in {"FastPath", "ConsumeFailed"}
                  /\ PreCheckedSatisfiedBefore(t, j)
                  /\ NotReleasedBefore(t, j)
                  /\ th[t].ops[j][2] \in RequiredPositions(t)
            /\ ~th[t].fWAll =>
                  /\ Cardinality(ConsumeEntries(t)) <= 1
                  /\ \A j \in ConsumeEntries(t) :
                        th[t].ops[j][2] = Len(PreChecks(t)) - 1
            /\ th[t].fWAll =>
                  \A j \in ConsumeEntries(t) :
                      th[t].ops[j][2] =
                          Cardinality({k \in ConsumeEntries(t) : k < j})
            /\ ConsumeLoopDone(t) =>
                  {th[t].ops[j][2] : j \in ConsumeEntries(t)}
                      = RequiredPositions(t)

\* a call has consumed the signal of the thread object that its pre-check
\* found signaled, and released the controller afterwards
C31_Witness ==
    \E t \in Threads :
        /\ Returned(t)
        /\ th[t].path = "FastPath"
        /\ th[t].lpHandles = <<"hThread">>
        /\ th[t].objAtEntry.signaled["oThread"]
        /\ ~signaled["oThread"]
        /\ Cardinality(ConsumeEntries(t)) = 1
        /\ TimesInvoked(t, "ReleaseController", 0) = 1

(***************************************************************************)
(* C32.  A call that returns from the fast path with a satisfied outcome   *)
(* returns the abandoned form of it (WAIT_ABANDONED_0 plus the index       *)
(* rather than WAIT_OBJECT_0 plus the index) if and only if an object      *)
(* whose signal the call consumed reported abandonment in the pre-check;   *)
(* an abandonment reported only by objects that were pre-checked and not   *)
(* consumed does not make the outcome abandoned.                           *)
(***************************************************************************)
\* indexes on which the pre-check of the call succeeded
PreCheckedPositions(t) ==
    {PreChecks(t)[k][2] : k \in
        {j \in DOMAIN PreChecks(t) : PreChecks(t)[j][3] = NO_ERROR}}

\* line 187: the pre-check of index idx reported fWaitObjectAbandoned
ReportedAbandoned(t, idx) ==
    th[t].objAtEntry.abandoned[HandleTable(th[t].lpHandles[idx + 1])]

\* the outcome is the abandoned form of a satisfied outcome
OutcomeAbandoned(t) ==
    /\ th[t].dwRet >= WAIT_ABANDONED_0
    /\ th[t].dwRet < WAIT_ABANDONED_0 + th[t].nCount

C32_AbandonedIffConsumedAbandoned ==
    \A t \in Threads :
        FastPathSatisfied(t) =>
            /\ ConsumedPositions(t) \subseteq PreCheckedPositions(t)
            /\ OutcomeAbandoned(t) <=>
                  \E idx \in ConsumedPositions(t) : ReportedAbandoned(t, idx)
            /\ (\A idx \in ConsumedPositions(t) : ~ReportedAbandoned(t, idx))
                  => /\ ~OutcomeAbandoned(t)
                     /\ th[t].dwRet =
                          DWordAdd(WAIT_OBJECT_0, th[t].iSignaledObjIndex)

\* a call has consumed the signal of an object that reported abandonment
\* and has returned the abandoned form
C32_Witness ==
    \E t \in Threads :
        /\ FastPathSatisfied(t)
        /\ ConsumedPositions(t) = {0}
        /\ ReportedAbandoned(t, 0)
        /\ th[t].dwRet = WAIT_ABANDONED_0

(***************************************************************************)
(* C33.  The working arrays are taken from the heap if and only if         *)
(* 16 < count <= 64; the inline arrays, of MAXIMUM_WAIT_OBJECTS / 4        *)
(* entries, are used otherwise.  Both heap arrays, when allocated, are     *)
(* freed once, at the exit of the call and on every path to it.  When      *)
(* either allocation fails the call returns WAIT_FAILED with last error    *)
(* ERROR_NOT_ENOUGH_MEMORY and has resolved no handle.                     *)
(***************************************************************************)
HeapArrays(t) == {th[t].heapObjs, th[t].heapCtrls}

\* lines 111-112 have run
AllocationAttempted(t) ==
    /\ th[t].pc # "Validate"
    /\ th[t].path # "InvalidCount"
    /\ "none" \notin HeapArrays(t)

AllocationFailed(t) == AllocationAttempted(t) /\ NULL \in HeapArrays(t)

C33_HeapArraysAllocatedAndFreed ==
    \A t \in Threads :
        InCall(t) /\ th[t].pc # "Validate" =>
            /\ AllocationAttempted(t) <=>
                  (DWordGreater(th[t].nCount, 16)
                      /\ ~DWordGreater(th[t].nCount, 64))
            /\ ~AllocationAttempted(t) =>
                  \/ HeapArrays(t) = {"none"}
                        /\ th[t].nCount <= MAXIMUM_WAIT_OBJECTS \div 4
                  \/ HeapArrays(t) = {NULL} /\ th[t].path = "InvalidCount"
            /\ AllocationAttempted(t) =>
                  /\ ~Returned(t) => HeapArrays(t) \subseteq {"allocated", NULL}
                  /\ Returned(t) => HeapArrays(t) \subseteq {"freed", NULL}
                  /\ th[t].pc \notin {"Exit", "Done"} =>
                        HeapArrays(t) = {"allocated"}
            /\ AllocationFailed(t) =>
                  /\ th[t].path = "OutOfMemory"
                  /\ th[t].ops = <<>>
                  /\ refCount = th[t].refAtEntry
                  /\ th[t].dwRet = WAIT_FAILED
                  /\ th[t].lastError = "ERROR_NOT_ENOUGH_MEMORY"

\* a call of 17 objects has returned with both heap arrays freed, after
\* its handles had been resolved
C33_Witness ==
    \E t \in Threads :
        /\ Returned(t)
        /\ th[t].nCount = MAXIMUM_STACK_WAITOBJ_ARRAY_SIZE + 1
        /\ HeapArrays(t) = {"freed"}
        /\ Invoked(t, "ReleaseReference")

(***************************************************************************)
(* C34.  Every call eventually returns provided BlockThread eventually     *)
(* returns.  A call that does not reach the blocking path (a validation    *)
(* failure, the fast path, a timeout of zero, a controller error) never    *)
(* enters BlockThread; outside BlockThread the thread can always take the  *)
(* next step of its call whatever the other threads do, and every step it  *)
(* takes moves it forward in the function, so that it returns after a      *)
(* bounded number of its own steps.                                        *)
(***************************************************************************)
\* the places of the function in the order in which control passes them
PlaceOrder ==
    <<"Validate", "Resolve", "Gate", "GetControllers", "CheckAlertable",
      "PreCheck", "Decide", "Consume", "Register", "ReleaseControllers",
      "BlockThread", "MapIndex", "Cleanup", "Exit", "Done">>

PlaceOf(pc) == CHOOSE k \in DOMAIN PlaceOrder : PlaceOrder[k] = pc

\* how far the frame fr of a call has come: the place, then the loop index
Progress(fr) == PlaceOf(fr.pc) * (MAXIMUM_WAIT_OBJECTS + 1) + fr.i

\* the paths on which the function does not get to line 292
NonBlockingPaths ==
    {"InvalidCount", "OutOfMemory", "ResolveFailed", "NotSupported",
     "Duplicate", "ControllersFailed", "Alertable", "PreCheckFailed",
     "NegativeStart", "FastPath", "ConsumeFailed", "ZeroTimeout",
     "RegisterFailed"}

NonBlockingCall(t) ==
    \/ th[t].path \in NonBlockingPaths
    \/ InCall(t) /\ th[t].dwMilliseconds = 0

\* the thread takes a step of its call (a wakeup is left for it by others)
OwnStep(t) ==
    /\ InCall(t)
    /\ ~Returned(t)
    /\ th'[t] # th[t]
    /\ th'[t].wake = th[t].wake

C35_FailedCallSetsLastError ==
    \A t \in Threads :
        /\ Returned(t)
        /\ th[t].dwRet = WAIT_FAILED
        /\ th[t].errAtEntry = NO_ERROR
        => th[t].lastError # NO_ERROR

(***************************************************************************)
(* C36.  When a request breaks several rules at once the last error of the *)
(* returned call follows a fixed precedence: count out of range            *)
(* (ERROR_INVALID_PARAMETER), then a failed allocation of the working      *)
(* arrays (ERROR_NOT_ENOUGH_MEMORY), then a failed resolution of the       *)
(* handles (ERROR_INVALID_HANDLE, or ERROR_INTERNAL_ERROR for any other    *)
(* registry failure), then count > 1 (ERROR_NOT_SUPPORTED), then a failed  *)
(* controller acquisition (ERROR_INTERNAL_ERROR), then alertable           *)
(* (ERROR_INTERNAL_ERROR).  The result is WAIT_FAILED in each case.  So an *)
(* alertable request of more than one object reports ERROR_NOT_SUPPORTED   *)
(* and a request of more than one object with an unresolvable handle       *)
(* reports ERROR_INVALID_HANDLE.                                           *)
(***************************************************************************)
\* the request names a handle that resolves to no waitable object
HasUnresolvableHandle(t) ==
    \E k \in DOMAIN th[t].lpHandles : ~HandleResolves(th[t].lpHandles[k])

\* the registry failed although every handle is good
RegistryFailed(t) ==
    \E k \in DOMAIN th[t].ops :
        /\ th[t].ops[k][1] = "ReferenceMultipleObjectsByHandleArray"
        /\ th[t].ops[k][3] \in RegistryFaults

ControllersFailed(t) ==
    \E k \in DOMAIN th[t].ops :
        /\ th[t].ops[k][1] = "GetSynchWaitControllersForObjects"
        /\ th[t].ops[k][3] # NO_ERROR

\* the rules in their order of precedence: <<rule broken, error reported>>
ValidationRules(t) ==
    <<  <<~CountInRange(th[t].nCount), "ERROR_INVALID_PARAMETER">>,
        <<AllocationFailed(t), "ERROR_NOT_ENOUGH_MEMORY">>,
        <<HasUnresolvableHandle(t), "ERROR_INVALID_HANDLE">>,
        <<RegistryFailed(t), "ERROR_INTERNAL_ERROR">>,
        <<th[t].nCount > 1, "ERROR_NOT_SUPPORTED">>,
        <<ControllersFailed(t), "ERROR_INTERNAL_ERROR">>,
        <<th[t].bAlertable, "ERROR_INTERNAL_ERROR">>  >>

BrokenRules(t) == {k \in DOMAIN ValidationRules(t) : ValidationRules(t)[k][1]}

\* the first broken rule
FirstBroken(t) == CHOOSE k \in BrokenRules(t) : \A j \in BrokenRules(t) : k <= j

C36_ErrorPrecedence ==
    \A t \in Threads :
        Returned(t) /\ BrokenRules(t) # {} =>
            /\ th[t].dwRet = WAIT_FAILED
            /\ th[t].lastError = ValidationRules(t)[FirstBroken(t)][2]

\* an alertable request of two objects, one handle of which is closed, has
\* been refused for the handle
C36_Witness ==
    \E t \in Threads :
        /\ Returned(t)
        /\ th[t].bAlertable
        /\ th[t].nCount = 2
        /\ th[t].lpHandles[2] = "hClosed"
        /\ BrokenRules(t) = {3, 5, 7}
        /\ th[t].lastError = "ERROR_INVALID_HANDLE"

(***************************************************************************)
(* C37.  A call in which RegisterWaitingThread succeeded on an object      *)
(* invokes BlockThread before it returns: no call returns and leaves the   *)
(* thread registered as a waiter without having gone through BlockThread.  *)
(***************************************************************************)
\* the objects on which the thread is registered as a waiter
RegisteredOn(t) == {o \in Objects : t \in waiters[o]}

C37_RegisteredCallBlocks ==
    \A t \in Threads :
        /\ Returned(t) /\ Succeeded(t, "RegisterWaitingThread") =>
              /\ Invoked(t, "BlockThread")
              /\ RegisteredOn(t) = {}
        /\ RegisteredOn(t) # {} =>
              /\ th[t].pc \in {"Register", "ReleaseControllers", "BlockThread"}
              /\ Succeeded(t, "RegisterWaitingThread")
              /\ ~Invoked(t, "BlockThread")
        /\ ~InCall(t) => RegisteredOn(t) = {}

\* a call has registered on the process object, blocked and returned
C37_Witness ==
    \E t \in Threads :
        /\ Returned(t)
        /\ th[t].lpHandles = <<"hProc">>
        /\ TimesInvoked(t, "RegisterWaitingThread", 0) = 1
        /\ Succeeded(t, "RegisterWaitingThread")
        /\ Invoked(t, "BlockThread")
        /\ RegisteredOn(t) = {}

(***************************************************************************)
(* C38.  In a call ReleaseController is invoked at most once on each       *)
(* controller, and only on a controller the call acquired; once it has     *)
(* been invoked, no CanThreadWaitWithoutBlocking,                          *)
(* ReleaseWaitingThreadWithoutBlocking or RegisterWaitingThread is invoked *)
(* on that controller.  Likewise no object is used after its               *)
(* ReleaseReference: what follows in the call are only the releases of the *)
(* other positions.                                                        *)
(***************************************************************************)
IsControllerUse(e) ==
    e[1] \in {"CanThreadWaitWithoutBlocking",
              "ReleaseWaitingThreadWithoutBlocking", "RegisterWaitingThread"}

\* the log entries after entry k
LaterEntries(t, k) == k + 1 .. Len(th[t].ops)

C38_NoUseAfterRelease ==
    \A t \in Threads :
        InCall(t) =>
            \A k \in DOMAIN th[t].ops :
                LET e == th[t].ops[k] IN
                /\ e[1] = "ReleaseController" =>
                      /\ Succeeded(t, "GetSynchWaitControllersForObjects")
                      /\ e[2] \in 0 .. th[t].nCount - 1
                      /\ th[t].ppISyncWaitCtrlrs[e[2] + 1] = NULL
                      /\ \A j \in LaterEntries(t, k) :
                            th[t].ops[j][2] = e[2] =>
                                /\ th[t].ops[j][1] # "ReleaseController"
                                /\ ~IsControllerUse(th[t].ops[j])
                /\ e[1] = "ReleaseReference" =>
                      /\ th[t].ppIPalObjs[e[2] + 1] = NULL
                      /\ \A j \in LaterEntries(t, k) :
                            /\ IsReleaseReference(th[t].ops[j])
                            /\ th[t].ops[j][2] # e[2]

\* a call has pre-checked, consumed, released the controller and then the
\* reference of its object, in this order
C38_Witness ==
    \E t \in Threads :
        /\ Returned(t)
        /\ th[t].ops =
              << <<"ReferenceMultipleObjectsByHandleArray", 0, NO_ERROR>>,
                 <<"GetSynchWaitControllersForObjects", 0, NO_ERROR>>,
                 <<"CanThreadWaitWithoutBlocking", 0, NO_ERROR>>,
                 <<"ReleaseWaitingThreadWithoutBlocking", 0, NO_ERROR>>,
                 <<"ReleaseController", 0, NO_ERROR>>,
                 <<"ReleaseReference", 0, NO_ERROR>> >>

(***************************************************************************)
(* C39.  A call that returns a satisfied, abandoned or timed-out outcome   *)
(* leaves the last error of the thread as it was at the entry of the call: *)
(* the last error is written only on paths that return WAIT_FAILED.        *)
(***************************************************************************)
\* the paths on which the function calls SetLastError
ErrorPaths ==
    {"InvalidCount", "OutOfMemory", "ResolveFailed", "NotSupported",
     "Duplicate", "ControllersFailed", "Alertable", "PreCheckFailed",
     "NegativeStart", "ConsumeFailed", "RegisterFailed", "BlockFailed",
     "NegativeIndex"}

C39_LastErrorWrittenOnlyOnFailure ==
    \A t \in Threads :
        InCall(t) =>
            /\ th[t].path \in ErrorPaths =>
                  /\ th[t].dwRet = WAIT_FAILED
                  /\ th[t].lastError # NO_ERROR
            /\ th[t].path \notin ErrorPaths =>
                  th[t].lastError = th[t].errAtEntry
            /\ Returned(t) /\ th[t].dwRet # WAIT_FAILED =>
                  /\ th[t].lastError = th[t].errAtEntry
                  /\ th[t].path \notin ErrorPaths

\* a call entered with the error of an earlier call recorded has returned
\* WAIT_TIMEOUT and the error is still recorded
C39_Witness ==
    \E t \in Threads :
        /\ Returned(t)
        /\ th[t].dwRet = WAIT_TIMEOUT
        /\ th[t].errAtEntry = "ERROR_INVALID_HANDLE"
        /\ th[t].lastError = "ERROR_INVALID_HANDLE"

(***************************************************************************)
(* C40.  When ReferenceMultipleObjectsByHandleArray fails with an error    *)
(* other than ERROR_INVALID_HANDLE the call returns WAIT_FAILED with last  *)
(* error ERROR_INTERNAL_ERROR, not with the code the registry returned;    *)
(* when it fails with ERROR_INVALID_HANDLE the call returns WAIT_FAILED    *)
(* with last error ERROR_INVALID_HANDLE.                                   *)
(***************************************************************************)
\* what the registry returned to the call (NO_ERROR when it was not called)
ResolveResult(t) ==
    IF Invoked(t, "ReferenceMultipleObjectsByHandleArray")
    THEN th[t].ops[1][3]
    ELSE NO_ERROR

C40_ResolveErrorMapped ==
    \A t \in Threads :
        Returned(t) /\ ResolveResult(t) # NO_ERROR =>
            /\ th[t].dwRet = WAIT_FAILED
            /\ ResolveResult(t) = "ERROR_INVALID_HANDLE" =>
                  th[t].lastError = "ERROR_INVALID_HANDLE"
            /\ ResolveResult(t) # "ERROR_INVALID_HANDLE" =>
                  /\ th[t].lastError = "ERROR_INTERNAL_ERROR"
                  /\ th[t].lastError # ResolveResult(t)

\* the registry ran out of memory and the call reports an internal error
C40_Witness ==
    \E t \in Threads :
        /\ Returned(t)
        /\ ResolveResult(t) = "ERROR_OUTOFMEMORY"
        /\ th[t].dwRet = WAIT_FAILED
        /\ th[t].lastError = "ERROR_INTERNAL_ERROR"

=============================================================================
